---- MODULE Spec2Model ----
(***************************************************************************)
(* Model of the schema migration and bootstrap engine of the to-do list   *)
(* application: migrate.py (connect_mysql, load_migrations,               *)
(* already_applied, apply_migration, main); connect_mysql of main.py is   *)
(* the same function, line for line.                                       *)
(*                                                                         *)
(* The MySQL server is modelled by the tables the engine touches:         *)
(* schema_migrations (UNIQUE name) and users (UNIQUE username), each with *)
(* its committed rows and the uncommitted rows of every open session.     *)
(* A read sees the committed rows and the session's own uncommitted rows. *)
(* An operation that the code wraps in an exception handler may fail; the *)
(* number of such injected failures in one behaviour is bounded by        *)
(* MaxFaults.                                                              *)
(*                                                                         *)
(* Of main.py the module models create_app with ensure_schema (SpecApp)   *)
(* and the per-request connection of get_db and close_db (SpecReq).       *)
(* SpecLookup calls already_applied on its own, SpecIso runs main() of    *)
(* migrate.py against two databases of one server, SpecConc runs it in    *)
(* two processes at once.  SpecSplit runs main()'s loop over one file of   *)
(* any text, SpecRoles the routes that read and write users.role, each    *)
(* handler as one step.                                                    *)
(***************************************************************************)
EXTENDS Naturals, Sequences, FiniteSets, TLC

(* ---------------------------------------------------------------- bounds *)
\* Number of times each process invokes main().
MaxRuns == 2
\* Number of injected failures (statement, lookup, connection, seeding).
MaxFaults == 2

(* ------------------------------------------------------------ processes *)
Procs == {"p1", "p2"}

(* ------------------------------------------------------------ file names *)
\* File names are sequences of character codes; the stems "1", "10", "2"
\* sort lexically as 1 < 10 < 2, which differs from their numeric order.
NameUniverse == {<<1>>, <<1, 0>>, <<2>>}

\* File texts are sequences of characters.
Whitespace == {" ", "\n"}
Terminator == ";"
TextUniverse ==
    { <<" ", ";">>,
      <<"a", ";", " ", "b", ";", ";", "c">> }

\* The entry of the migrations directory that is no migration file.
ReadmeEntry == [name |-> <<0>>, ext |-> "md", text |-> <<"x", ";">>]

(* ------------------------------------------------- str.split / str.strip *)
RECURSIVE FirstIndex(_, _, _)
\* Index of the first occurrence of c in s at or after k, 0 when absent.
FirstIndex(s, c, k) ==
    IF k > Len(s) THEN 0
    ELSE IF s[k] = c THEN k
    ELSE FirstIndex(s, c, k + 1)

RECURSIVE Split(_, _)
\* sql.split(";"): the pieces between the terminators, empty ones included.
Split(s, c) ==
    LET k == FirstIndex(s, c, 1) IN
    IF k = 0 THEN <<s>>
    ELSE <<SubSeq(s, 1, k - 1)>> \o Split(SubSeq(s, k + 1, Len(s)), c)

RECURSIVE LStrip(_)
LStrip(s) ==
    IF s # <<>> /\ Head(s) \in Whitespace THEN LStrip(Tail(s)) ELSE s

RECURSIVE RStrip(_)
RStrip(s) ==
    IF s # <<>> /\ s[Len(s)] \in Whitespace
    THEN RStrip(SubSeq(s, 1, Len(s) - 1))
    ELSE s

\* s.strip()
Strip(s) == RStrip(LStrip(s))

\* A plausible slip: every piece is kept, the empty ones too.
StatementsKeepEmpty(sql) ==
    LET pieces == Split(sql, Terminator) IN
    [k \in 1..Len(pieces) |-> Strip(pieces[k])]

\* [s.strip() for s in sql.split(";") if s.strip()]
Statements(sql) ==
    LET pieces == Split(sql, Terminator)
        kept == SelectSeq(pieces, LAMBDA s : Strip(s) # <<>>)
    IN [k \in 1..Len(kept) |-> Strip(kept[k])]

(* ------------------------------------------------------- sorted(paths) *)
RECURSIVE LexLess(_, _)
\* a < b for two names, compared character by character; a proper prefix
\* is smaller.
LexLess(a, b) ==
    IF b = <<>> THEN FALSE
    ELSE IF a = <<>> THEN TRUE
    ELSE IF Head(a) # Head(b) THEN Head(a) < Head(b)
    ELSE LexLess(Tail(a), Tail(b))

RECURSIVE Insert(_, _)
Insert(e, sorted) ==
    IF sorted = <<>> THEN <<e>>
    ELSE IF LexLess(e.name, Head(sorted).name) THEN <<e>> \o sorted
    ELSE <<Head(sorted)>> \o Insert(e, Tail(sorted))

RECURSIVE Sorted(_)
\* sorted(list): ascending by name.
Sorted(list) ==
    IF list = <<>> THEN <<>> ELSE Insert(Head(list), Sorted(Tail(list)))

\* root.glob("*.sql") over a directory listing
Glob(listing) == SelectSeq(listing, LAMBDA e : e.ext = "sql")

\* The orders in which the file system may list a directory.
Listings(dir) ==
    { l \in [1..Cardinality(dir) -> dir] :
        \A a, b \in 1..Cardinality(dir) : a # b => l[a] # l[b] }

\* A plausible slip: the glob result is used in listing order.
LoadMigrationsUnsorted(listing) == Glob(listing)

\* load_migrations(): sorted([p for p in root.glob("*.sql")])
LoadMigrations(listing) == Sorted(Glob(listing))


(* ---------------------------------------------------------------- state *)
VARIABLES
    \* the MySQL server
    dbExists,           \* the configured database exists
    trackingTable,      \* table schema_migrations exists
    schema_migrations,  \* committed rows of schema_migrations: their names, in insertion order
    usersSchema,        \* "missing", "norole" (users without a role column) or "role"
    users,              \* committed rows of users, in insertion order
    pendingMig,         \* per process: its uncommitted schema_migrations rows
    pendingUsers,       \* per process: its uncommitted users rows
    openConns,          \* the connections that are open
    \* the deployment
    migrationsDir,      \* the entries of the migrations directory
    drivers,            \* the driver libraries that can be imported
    faults,             \* injected failures so far
    faultBudget,        \* how many failures may be injected
    \* one invocation of main() per process
    pc, run, drv, conn, paths, i, stmts, j, adminHash, log,
    \* history
    startDb,            \* per process: the tables as they were when its current run started
    prevOutcome,        \* per process: how its previous run ended
    execRuns,           \* <<name, process, run>> for every unit one of whose statements was executed
    \* the configuration and the server's other database
    mysqlDb,            \* the environment variable MYSQL_DB, or "unset"
    otherDb,            \* the tables of the database that is not the configured one
    \* the web application (main.py)
    baseTables,         \* which of the tables tasks and subtasks exist
    roleCurrent,        \* users.role is defined as the current ENUM ... DEFAULT 'customer'
    teardown,           \* the functions registered with app.teardown_appcontext
    g,                  \* per request scope: g.db_conn, or "none"
    session,            \* per client: the session its cookie carries
    response            \* the request handled last, and the response to it

dbVars == <<dbExists, trackingTable, schema_migrations, usersSchema, users,
            pendingMig, pendingUsers>>
\* What no step outside the route handlers changes.
reqVars == <<session, response>>
webVars == <<baseTables, roleCurrent, teardown, g, reqVars>>
\* What no step of connect_mysql and of main() of migrate.py changes.
envVars == <<migrationsDir, drivers, faultBudget, mysqlDb, otherDb, webVars>>
locVars == <<drv, conn, paths, i, stmts, j, adminHash>>
histVars == <<startDb, prevOutcome, execRuns>>
vars == <<dbExists, trackingTable, schema_migrations, usersSchema, users,
          pendingMig, pendingUsers, openConns, migrationsDir, drivers, faults,
          faultBudget, pc, run, drv, conn, paths, i, stmts, j, adminHash, log,
          startDb, prevOutcome, execRuns, mysqlDb, otherDb, baseTables,
          roleCurrent, teardown, g, session, response>>

(* -------------------------------------------------------------- helpers *)
\* The driver libraries connect_mysql tries, in order.
DriverOrder == <<"pymysql", "mysql.connector">>

\* main() and create_app() call connect_mysql(True).
CreateDbIfMissing == TRUE

AdminUsername == "admin"
AdminPasswords == {"admin@123", "override"}

\* Whether the next fallible operation may be made to fail.
FaultChoices == IF faults < faultBudget THEN {TRUE, FALSE} ELSE {FALSE}

Ev(kind, name, idx, ok) ==
    [ev |-> kind, name |-> name, idx |-> idx, stmt |-> <<>>, ok |-> ok]
EvExec(name, idx, stmt, ok) ==
    [ev |-> "exec", name |-> name, idx |-> idx, stmt |-> stmt, ok |-> ok]
NoName == <<>>

Range(s) == {s[k] : k \in 1..Len(s)}

\* The names a SELECT of process p finds in schema_migrations.
VisibleNames(p) == Range(schema_migrations) \cup Range(pendingMig[p])

\* The rows a SELECT of process p finds in users.
VisibleUsers(p) == users \o pendingUsers[p]

AdminRows(rows) == SelectSeq(rows, LAMBDA r : r.username = AdminUsername)

\* A plausible slip: the name column carries no UNIQUE index, so an INSERT
\* never waits for the uncommitted row of another session.
MigLockedByOtherNever(p, name) == FALSE

\* Another session holds an uncommitted row with this unique key: the
\* INSERT waits for that session to commit or roll back.
MigLockedByOther(p, name) ==
    \E q \in Procs \ {p} : name \in Range(pendingMig[q])
UserLockedByOther(p, username) ==
    \E q \in Procs \ {p} : \E k \in 1..Len(pendingUsers[q]) :
        pendingUsers[q][k].username = username

\* generate_password_hash(password): salted; the salt is fresh in each call.
GeneratePasswordHash(password, salt) == [pw |-> password, salt |-> salt]

Append1(p, e) == log' = [log EXCEPT ![p] = Append(@, e)]
Append2(p, e1, e2) == log' = [log EXCEPT ![p] = @ \o <<e1, e2>>]

(* ------------------------------------------------- the configured database *)
\* The values of MYSQL_DB; "unset" is the variable not being set.
MysqlDbValues == {"unset", "todolist", "staging"}
DefaultDatabase == "todolist"
DatabaseNames == {"todolist", "staging"}

\* A plausible slip: the database name is written into the connect call.
ConfiguredDatabaseFixed(env) == DefaultDatabase

\* cfg["database"]: os.environ.get("MYSQL_DB", "todolist").  Every connect
\* of connect_mysql names it, CREATE DATABASE names it, and the statements
\* of main() name their tables without a database.
ConfiguredDatabase(env) == IF env = "unset" THEN DefaultDatabase ELSE env

\* A database of the server, as a record of its tables.
NoDatabase ==
    [exists |-> FALSE, table |-> FALSE, migrations |-> <<>>, usersSchema |-> "missing",
     users |-> <<>>, baseTables |-> {}, roleCurrent |-> TRUE]
EmptyDatabase == [NoDatabase EXCEPT !.exists = TRUE]

\* The configured database, as such a record.
ThisDatabase ==
    [exists |-> dbExists, table |-> trackingTable, migrations |-> schema_migrations,
     usersSchema |-> usersSchema, users |-> users, baseTables |-> baseTables,
     roleCurrent |-> roleCurrent]

(* ----------------------------------------------------------------- Init *)
\* The migrations directory: any set of migration files with names of
\* NameUniverse and texts of TextUniverse, next to one file that is none.
Directories ==
    { {ReadmeEntry} \cup { [name |-> n, ext |-> "sql", text |-> f[n]] : n \in DOMAIN f } :
        f \in UNION { [S -> TextUniverse] : S \in SUBSET NameUniverse } }

InitProcs ==
    /\ pc = [p \in Procs |-> "idle"]
    /\ run = [p \in Procs |-> 0]
    /\ drv = [p \in Procs |-> 1]
    /\ conn = [p \in Procs |-> "none"]
    /\ paths = [p \in Procs |-> <<>>]
    /\ i = [p \in Procs |-> 1]
    /\ stmts = [p \in Procs |-> <<>>]
    /\ j = [p \in Procs |-> 1]
    /\ adminHash = [p \in Procs |-> GeneratePasswordHash("", 0)]
    /\ log = [p \in Procs |-> <<>>]
    /\ startDb = [p \in Procs |-> [table |-> FALSE, migrations |-> <<>>, users |-> <<>>]]
    /\ prevOutcome = [p \in Procs |-> "none"]
    /\ execRuns = {}

\* MYSQL_DB is not set, and the server has no other database; the web
\* application is not running.
\* No client holds a session cookie, and no request has been handled.
NoSession == [user_id |-> 0, role |-> "none"]
NoResponse ==
    [client |-> "none", route |-> "none", status |-> 0, role |-> "absent", wrote |-> "none"]
InitNoRequests ==
    /\ session = [p \in Procs |-> NoSession]
    /\ response = NoResponse

InitSingleDb ==
    /\ mysqlDb = "unset"
    /\ otherDb = NoDatabase
InitNoWeb ==
    /\ baseTables = {}
    /\ roleCurrent = TRUE
    /\ teardown = {}
    /\ g = [p \in Procs |-> "none"]
    /\ InitNoRequests

Init ==
    /\ dbExists \in BOOLEAN
    /\ trackingTable = FALSE
    /\ schema_migrations = <<>>
    /\ usersSchema \in IF dbExists THEN {"missing", "norole", "role"} ELSE {"missing"}
    /\ users = <<>>
    /\ pendingMig = [p \in Procs |-> <<>>]
    /\ pendingUsers = [p \in Procs |-> <<>>]
    /\ openConns = {}
    /\ migrationsDir \in Directories
    /\ drivers \in SUBSET Range(DriverOrder)
    /\ faults = 0
    /\ faultBudget = MaxFaults
    /\ InitProcs
    /\ InitSingleDb
    /\ InitNoWeb

(* -------------------------------------------------------- connect_mysql *)
Connection(p, kind) ==
    [owner |-> p, run |-> run[p], kind |-> kind, driver |-> DriverOrder[drv[p]]]

Fault(err) == faults' = IF err THEN faults + 1 ELSE faults

\* A plausible slip: a retry loop, the same driver's block is entered again.
AfterDriverFailureRetry(p) ==
    /\ drv' = drv
    /\ pc' = [pc EXCEPT ![p] = "import"]

\* "except Exception: pass" of the current driver's block: the next driver
\* is tried, and after the last one connect_mysql returns None.
AfterDriverFailure(p) ==
    IF drv[p] < Len(DriverOrder)
    THEN /\ drv' = [drv EXCEPT ![p] = @ + 1]
         /\ pc' = [pc EXCEPT ![p] = "import"]
    ELSE /\ drv' = drv
         /\ pc' = [pc EXCEPT ![p] = "connect_ret"]

\* "import pymysql" / "import mysql.connector"
ImportDriver(p) ==
    /\ pc[p] = "import"
    /\ IF DriverOrder[drv[p]] \in drivers
       THEN /\ pc' = [pc EXCEPT ![p] = "direct"]
            /\ drv' = drv
       ELSE AfterDriverFailure(p)
    /\ UNCHANGED <<dbVars, envVars, histVars, openConns, faults, run, conn,
                   paths, i, stmts, j, adminHash, log>>

\* The first connect(..., database=cfg["database"]) of a driver's block.
DirectConnect(p) ==
    /\ pc[p] = "direct"
    /\ \E err \in FaultChoices :
        /\ err => dbExists
        /\ Fault(err)
        /\ IF dbExists /\ ~err
           THEN /\ openConns' = openConns \cup {Connection(p, "db")}
                /\ conn' = [conn EXCEPT ![p] = DriverOrder[drv[p]]]
                /\ pc' = [pc EXCEPT ![p] = "connect_ret"]
                /\ drv' = drv
                /\ Append1(p, Ev("connect", NoName, drv[p], TRUE))
           ELSE /\ UNCHANGED <<openConns, conn>>
                /\ Append1(p, Ev("connect", NoName, drv[p], FALSE))
                /\ IF CreateDbIfMissing
                   THEN /\ pc' = [pc EXCEPT ![p] = "tmp"]
                        /\ drv' = drv
                   ELSE AfterDriverFailure(p)
    /\ UNCHANGED <<dbVars, envVars, histVars, run, paths, i, stmts, j, adminHash>>

\* tmp = connect(...) without a database.
TmpConnect(p) ==
    /\ pc[p] = "tmp"
    /\ \E err \in FaultChoices :
        /\ Fault(err)
        /\ Append1(p, Ev("tmp_connect", NoName, drv[p], ~err))
        /\ IF ~err
           THEN /\ openConns' = openConns \cup {Connection(p, "tmp")}
                /\ pc' = [pc EXCEPT ![p] = "create"]
                /\ drv' = drv
           ELSE /\ openConns' = openConns
                /\ AfterDriverFailure(p)
    /\ UNCHANGED <<dbVars, envVars, histVars, run, conn, paths, i, stmts, j, adminHash>>

\* cur.execute("CREATE DATABASE IF NOT EXISTS ..."); tmp.commit(); tmp.close()
\* When the statement raises, tmp.close() is not reached.
CreateDatabase(p) ==
    /\ pc[p] = "create"
    /\ \E err \in FaultChoices :
        /\ Fault(err)
        /\ IF ~err
           THEN /\ dbExists' = TRUE
                /\ openConns' = openConns \ {Connection(p, "tmp")}
                /\ Append2(p, Ev("create_db", NoName, drv[p], TRUE),
                              Ev("tmp_close", NoName, drv[p], TRUE))
                /\ pc' = [pc EXCEPT ![p] = "retry"]
                /\ drv' = drv
           ELSE /\ UNCHANGED <<dbExists, openConns>>
                /\ Append1(p, Ev("create_db", NoName, drv[p], FALSE))
                /\ AfterDriverFailure(p)
    /\ UNCHANGED <<trackingTable, schema_migrations, usersSchema, users, pendingMig,
                   pendingUsers, envVars, histVars, run, conn, paths, i, stmts, j,
                   adminHash>>

\* The second connect(..., database=cfg["database"]) of a driver's block.
RetryConnect(p) ==
    /\ pc[p] = "retry"
    /\ \E err \in FaultChoices :
        /\ err => dbExists
        /\ Fault(err)
        /\ Append1(p, Ev("connect", NoName, drv[p], dbExists /\ ~err))
        /\ IF dbExists /\ ~err
           THEN /\ openConns' = openConns \cup {Connection(p, "db")}
                /\ conn' = [conn EXCEPT ![p] = DriverOrder[drv[p]]]
                /\ pc' = [pc EXCEPT ![p] = "connect_ret"]
                /\ drv' = drv
           ELSE /\ UNCHANGED <<openConns, conn>>
                /\ AfterDriverFailure(p)
    /\ UNCHANGED <<dbVars, envVars, histVars, run, paths, i, stmts, j, adminHash>>

(* ----------------------------------------------------------------- main *)
Terminal == {"returned", "noconn", "raised"}

\* "python migrate.py": a new interpreter process calls main().  The process
\* of the previous invocation has exited: the server has dropped its
\* sessions and rolled back what they left uncommitted.
StartMain(p, limit) ==
    /\ pc[p] \in Terminal \cup {"idle"}
    /\ run[p] < limit
    /\ run' = [run EXCEPT ![p] = @ + 1]
    /\ pc' = [pc EXCEPT ![p] = "import"]
    /\ openConns' = {c \in openConns : c.owner # p}
    /\ pendingMig' = [pendingMig EXCEPT ![p] = <<>>]
    /\ pendingUsers' = [pendingUsers EXCEPT ![p] = <<>>]
    /\ drv' = [drv EXCEPT ![p] = 1]
    /\ conn' = [conn EXCEPT ![p] = "none"]
    /\ paths' = [paths EXCEPT ![p] = <<>>]
    /\ i' = [i EXCEPT ![p] = 1]
    /\ stmts' = [stmts EXCEPT ![p] = <<>>]
    /\ j' = [j EXCEPT ![p] = 1]
    /\ log' = [log EXCEPT ![p] = <<>>]
    /\ startDb' = [startDb EXCEPT ![p] = [table |-> trackingTable,
                                          migrations |-> schema_migrations,
                                          users |-> users]]
    /\ prevOutcome' = [prevOutcome EXCEPT ![p] = IF pc[p] = "idle" THEN "none" ELSE pc[p]]
    /\ UNCHANGED <<dbExists, trackingTable, schema_migrations, usersSchema, users,
                   envVars, faults, adminHash, execRuns>>

\* A plausible slip: the result of connect_mysql is not tested.
HasConnectionUntested(p) == TRUE

\* "conn is None" is false
HasConnection(p) == conn[p] # "none"

\* "if conn is None: print(...); return"
MainNoConnection(p) ==
    /\ pc[p] = "connect_ret"
    /\ conn[p] = "none"
    /\ Append1(p, Ev("print_connection_failed", NoName, 0, TRUE))
    /\ pc' = [pc EXCEPT ![p] = "noconn"]
    /\ UNCHANGED <<dbVars, envVars, histVars, openConns, faults, run, locVars>>

\* A plausible slip: the table is dropped and created anew by every run.
EnsureTrackingTableRecreate(p) ==
    /\ pc[p] = "connect_ret"
    /\ HasConnection(p)
    /\ trackingTable' = TRUE
    /\ schema_migrations' = <<>>
    /\ Append1(p, Ev("ensure_table", NoName, 0, TRUE))
    /\ pc' = [pc EXCEPT ![p] = "load"]
    /\ UNCHANGED <<dbExists, usersSchema, users, pendingMig,
                   pendingUsers, envVars, histVars, openConns, faults, run, locVars>>

\* CREATE TABLE IF NOT EXISTS schema_migrations (...); conn.commit()
EnsureTrackingTable(p) ==
    /\ pc[p] = "connect_ret"
    /\ HasConnection(p)
    /\ trackingTable' = TRUE
    /\ Append1(p, Ev("ensure_table", NoName, 0, TRUE))
    /\ pc' = [pc EXCEPT ![p] = "load"]
    /\ UNCHANGED <<dbExists, schema_migrations, usersSchema, users, pendingMig,
                   pendingUsers, envVars, histVars, openConns, faults, run, locVars>>

\* "for path in load_migrations()": the directory is listed in some order.
LoadStep(p) ==
    /\ pc[p] = "load"
    /\ \E listing \in Listings(migrationsDir) :
        paths' = [paths EXCEPT ![p] = LoadMigrations(listing)]
    /\ i' = [i EXCEPT ![p] = 1]
    /\ pc' = [pc EXCEPT ![p] = "loop"]
    /\ UNCHANGED <<dbVars, envVars, histVars, openConns, faults, run, drv, conn,
                   stmts, j, adminHash, log>>

\* A plausible slip: a failed lookup is taken as "applied".
AlreadyAppliedStrict(p, name, err) ==
    IF err \/ ~trackingTable THEN TRUE ELSE name \in VisibleNames(p)

\* already_applied(cur, name): False when the SELECT raises.
AlreadyApplied(p, name, err) ==
    IF err \/ ~trackingTable THEN FALSE ELSE name \in VisibleNames(p)

\* The unit the loop is at.
Current(p) == paths[p][i[p]]

\* already_applied(...) is true: print "Skipping ..."; continue
Skipping(p) ==
    /\ pc[p] = "loop"
    /\ i[p] <= Len(paths[p])
    /\ \E err \in FaultChoices :
        /\ AlreadyApplied(p, Current(p).name, err)
        /\ Fault(err)
        /\ Append2(p, Ev("lookup", Current(p).name, 0, ~err),
                      Ev("print_skipping", Current(p).name, 0, TRUE))
    /\ i' = [i EXCEPT ![p] = @ + 1]
    /\ UNCHANGED <<dbVars, envVars, histVars, openConns, pc, run, drv, conn, paths,
                   stmts, j, adminHash>>

\* already_applied(...) is false: print "Applying ..."; apply_migration is
\* entered and reads and splits the file.
Applying(p) ==
    /\ pc[p] = "loop"
    /\ i[p] <= Len(paths[p])
    /\ \E err \in FaultChoices :
        /\ ~AlreadyApplied(p, Current(p).name, err)
        /\ Fault(err)
        /\ Append2(p, Ev("lookup", Current(p).name, 0, ~err),
                      Ev("print_applying", Current(p).name, 0, TRUE))
    /\ stmts' = [stmts EXCEPT ![p] = Statements(Current(p).text)]
    /\ j' = [j EXCEPT ![p] = 1]
    /\ pc' = [pc EXCEPT ![p] = "exec"]
    /\ UNCHANGED <<dbVars, envVars, histVars, openConns, run, drv, conn, paths, i,
                   adminHash>>

\* A plausible slip: the try encloses the whole loop, so the first failing
\* statement ends it.
AfterStatementAbort(p, err) == IF err THEN Len(stmts[p]) + 1 ELSE j[p] + 1

\* The handler is inside the loop body: the loop goes on to the next
\* statement whether or not this one raised.
AfterStatement(p, err) == j[p] + 1

\* One pass of "for stmt in [...]": cur.execute(stmt), a failure is printed.
ExecStatement(p) ==
    /\ pc[p] = "exec"
    /\ j[p] <= Len(stmts[p])
    /\ \E err \in FaultChoices :
        /\ Fault(err)
        /\ IF err
           THEN Append2(p, EvExec(Current(p).name, j[p], stmts[p][j[p]], FALSE),
                           Ev("print_warning_statement", Current(p).name, j[p], TRUE))
           ELSE Append1(p, EvExec(Current(p).name, j[p], stmts[p][j[p]], TRUE))
        /\ j' = [j EXCEPT ![p] = AfterStatement(p, err)]
    /\ execRuns' = execRuns \cup {<<Current(p).name, p, run[p]>>}
    /\ UNCHANGED <<dbVars, envVars, openConns, pc, run, drv, conn, paths, i, stmts,
                   adminHash, startDb, prevOutcome>>

\* A plausible slip: the INSERT is issued inside the statement loop's
\* handler, so a duplicate name is skipped silently.
InsertRaisesNever(p, name) == FALSE

\* The UNIQUE constraint on schema_migrations.name.
InsertRaises(p, name) == ~trackingTable \/ name \in VisibleNames(p)

\* cur.execute("INSERT INTO schema_migrations (name) VALUES (%s)", ...)
\* after the last statement; it raises on a duplicate name, and nothing in
\* apply_migration or main catches that.
RecordMigration(p) ==
    /\ pc[p] = "exec"
    /\ j[p] > Len(stmts[p])
    /\ ~MigLockedByOther(p, Current(p).name)
    /\ IF InsertRaises(p, Current(p).name)
       THEN /\ Append2(p, Ev("insert", Current(p).name, 0, FALSE),
                          Ev("raise", Current(p).name, 0, TRUE))
            /\ pc' = [pc EXCEPT ![p] = "raised"]
            /\ pendingMig' = pendingMig
       ELSE /\ Append1(p, Ev("insert", Current(p).name, 0, TRUE))
            /\ pc' = [pc EXCEPT ![p] = "commit"]
            /\ pendingMig' = [pendingMig EXCEPT ![p] = Append(@, Current(p).name)]
    /\ UNCHANGED <<dbExists, trackingTable, schema_migrations, usersSchema, users,
                   pendingUsers, envVars, histVars, openConns, faults, run, locVars>>

\* conn.commit() at the end of apply_migration; the loop goes on.
CommitMigration(p) ==
    /\ pc[p] = "commit"
    /\ schema_migrations' = schema_migrations \o pendingMig[p]
    /\ pendingMig' = [pendingMig EXCEPT ![p] = <<>>]
    /\ Append1(p, Ev("commit", Current(p).name, 0, TRUE))
    /\ i' = [i EXCEPT ![p] = @ + 1]
    /\ pc' = [pc EXCEPT ![p] = "loop"]
    /\ UNCHANGED <<dbExists, trackingTable, usersSchema, users, pendingUsers,
                   envVars, histVars, openConns, faults, run, drv, conn, paths,
                   stmts, j, adminHash>>

\* A plausible slip: the print is indented into the loop body, and the
\* seeding follows it.
MigrationsCompleteEarly(p) ==
    /\ pc[p] = "loop"
    /\ Append1(p, Ev("print_complete", NoName, 0, TRUE))
    /\ pc' = [pc EXCEPT ![p] = "seed"]
    /\ UNCHANGED <<dbVars, envVars, histVars, openConns, faults, run, locVars>>

\* The loop is exhausted: print("Migrations complete.")
MigrationsComplete(p) ==
    /\ pc[p] = "loop"
    /\ i[p] > Len(paths[p])
    /\ Append1(p, Ev("print_complete", NoName, 0, TRUE))
    /\ pc' = [pc EXCEPT ![p] = "seed"]
    /\ UNCHANGED <<dbVars, envVars, histVars, openConns, faults, run, locVars>>

(* ------------------------------------------------- main: the admin seed *)
AdminRow(hash, role) ==
    [username |-> AdminUsername, email |-> "admin@example.com",
     password_hash |-> hash, role |-> role]

\* The role a row gets when the INSERT names no role column.
DefaultRole == IF usersSchema = "role" THEN "customer" ELSE "none"

\* A plausible slip: the seeder does not look at what the SELECT returned.
AdminExistsNever(p) == FALSE

\* cur.execute("SELECT id FROM users WHERE username=%s"); exists = cur.fetchone()
AdminExists(p) == AdminRows(VisibleUsers(p)) # <<>>

\* The SELECT raises (no users table, or a failure): the outer handler prints
\* the warning and main returns.
SeedLookupFails(p) ==
    /\ pc[p] = "seed"
    /\ \E err \in FaultChoices :
        /\ err \/ usersSchema = "missing"
        /\ err => usersSchema # "missing"
        /\ Fault(err)
    /\ Append2(p, Ev("seed_select", NoName, 0, FALSE),
                  Ev("print_warning_admin", NoName, 0, TRUE))
    /\ pc' = [pc EXCEPT ![p] = "returned"]
    /\ UNCHANGED <<dbVars, envVars, histVars, openConns, run, locVars>>

\* The admin row is there: nothing is done and main returns.
SeedAdminPresent(p) ==
    /\ pc[p] = "seed"
    /\ usersSchema # "missing"
    /\ AdminExists(p)
    /\ Append1(p, Ev("seed_select", NoName, 1, TRUE))
    /\ pc' = [pc EXCEPT ![p] = "returned"]
    /\ UNCHANGED <<dbVars, envVars, histVars, openConns, faults, run, locVars>>

\* The admin row is absent: the password is read from ADMIN_PASSWORD (or
\* the default) and hashed.
SeedAdminAbsent(p) ==
    /\ pc[p] = "seed"
    /\ usersSchema # "missing"
    /\ ~AdminExists(p)
    /\ \E password \in AdminPasswords :
        adminHash' = [adminHash EXCEPT ![p] = GeneratePasswordHash(password, <<p, run[p]>>)]
    /\ Append1(p, Ev("seed_select", NoName, 0, TRUE))
    /\ pc' = [pc EXCEPT ![p] = "seed_insert"]
    /\ UNCHANGED <<dbVars, envVars, histVars, openConns, faults, run, drv, conn,
                   paths, i, stmts, j>>

\* The UNIQUE constraint on users.username.
UserInsertRaises(p) == AdminRows(VisibleUsers(p)) # <<>>

\* A plausible slip: one INSERT only; when it raises the outer handler
\* prints the warning and no second INSERT is tried.
SeedInsertWithRoleOnly(p) ==
    /\ pc[p] = "seed_insert"
    /\ ~UserLockedByOther(p, AdminUsername)
    /\ \E err \in FaultChoices :
        /\ err => (usersSchema = "role" /\ ~UserInsertRaises(p))
        /\ Fault(err)
        /\ IF ~err /\ usersSchema = "role" /\ ~UserInsertRaises(p)
           THEN /\ pendingUsers' = [pendingUsers EXCEPT ![p] =
                                        Append(@, AdminRow(adminHash[p], "admin"))]
                /\ Append1(p, Ev("seed_insert_role", NoName, 0, TRUE))
                /\ pc' = [pc EXCEPT ![p] = "seed_commit"]
           ELSE /\ pendingUsers' = pendingUsers
                /\ Append2(p, Ev("seed_insert_role", NoName, 0, FALSE),
                              Ev("print_warning_admin", NoName, 0, TRUE))
                /\ pc' = [pc EXCEPT ![p] = "returned"]
    /\ UNCHANGED <<dbExists, trackingTable, schema_migrations, usersSchema, users,
                   pendingMig, envVars, histVars, openConns, run, locVars>>

\* INSERT INTO users (username, email, password_hash, role) VALUES (...)
SeedInsertWithRole(p) ==
    /\ pc[p] = "seed_insert"
    /\ ~UserLockedByOther(p, AdminUsername)
    /\ \E err \in FaultChoices :
        /\ err => (usersSchema = "role" /\ ~UserInsertRaises(p))
        /\ Fault(err)
        /\ IF ~err /\ usersSchema = "role" /\ ~UserInsertRaises(p)
           THEN /\ pendingUsers' = [pendingUsers EXCEPT ![p] =
                                        Append(@, AdminRow(adminHash[p], "admin"))]
                /\ Append1(p, Ev("seed_insert_role", NoName, 0, TRUE))
                /\ pc' = [pc EXCEPT ![p] = "seed_commit"]
           ELSE /\ pendingUsers' = pendingUsers
                /\ Append1(p, Ev("seed_insert_role", NoName, 0, FALSE))
                /\ pc' = [pc EXCEPT ![p] = "seed_fallback"]
    /\ UNCHANGED <<dbExists, trackingTable, schema_migrations, usersSchema, users,
                   pendingMig, envVars, histVars, openConns, run, locVars>>

\* The fallback: INSERT INTO users (username, email, password_hash) VALUES (...)
\* When it raises too, the outer handler prints the warning.
SeedInsertWithoutRole(p) ==
    /\ pc[p] = "seed_fallback"
    /\ ~UserLockedByOther(p, AdminUsername)
    /\ \E err \in FaultChoices :
        /\ err => ~UserInsertRaises(p)
        /\ Fault(err)
        /\ IF ~err /\ ~UserInsertRaises(p)
           THEN /\ pendingUsers' = [pendingUsers EXCEPT ![p] =
                                        Append(@, AdminRow(adminHash[p], DefaultRole))]
                /\ Append1(p, Ev("seed_insert_norole", NoName, 0, TRUE))
                /\ pc' = [pc EXCEPT ![p] = "seed_commit"]
           ELSE /\ pendingUsers' = pendingUsers
                /\ Append2(p, Ev("seed_insert_norole", NoName, 0, FALSE),
                              Ev("print_warning_admin", NoName, 0, TRUE))
                /\ pc' = [pc EXCEPT ![p] = "returned"]
    /\ UNCHANGED <<dbExists, trackingTable, schema_migrations, usersSchema, users,
                   pendingMig, envVars, histVars, openConns, run, locVars>>

\* conn.commit(); print("Admin user created ..."); main returns.
SeedCommit(p) ==
    /\ pc[p] = "seed_commit"
    /\ users' = users \o pendingUsers[p]
    /\ pendingUsers' = [pendingUsers EXCEPT ![p] = <<>>]
    /\ Append2(p, Ev("seed_commit", NoName, 0, TRUE),
                  Ev("print_admin_created", NoName, 0, TRUE))
    /\ pc' = [pc EXCEPT ![p] = "returned"]
    /\ UNCHANGED <<dbExists, trackingTable, schema_migrations, usersSchema, pendingMig,
                   envVars, histVars, openConns, faults, run, locVars>>

(* ------------------------------------------------------- specifications *)
ConnectStep(p) ==
    \/ ImportDriver(p)
    \/ DirectConnect(p)
    \/ TmpConnect(p)
    \/ CreateDatabase(p)
    \/ RetryConnect(p)

MainStep(p) ==
    \/ MainNoConnection(p)
    \/ EnsureTrackingTable(p)
    \/ LoadStep(p)
    \/ Skipping(p)
    \/ Applying(p)
    \/ ExecStatement(p)
    \/ RecordMigration(p)
    \/ CommitMigration(p)
    \/ MigrationsComplete(p)
    \/ SeedLookupFails(p)
    \/ SeedAdminPresent(p)
    \/ SeedAdminAbsent(p)
    \/ SeedInsertWithRole(p)
    \/ SeedInsertWithoutRole(p)
    \/ SeedCommit(p)

\* One operator runs the migration, again and again.
Next ==
    \/ StartMain("p1", MaxRuns)
    \/ ConnectStep("p1")
    \/ MainStep("p1")

Spec == Init /\ [][Next]_vars

(* ------------------------------------------------- reading the run's log *)
P1 == "p1"

Events(p, kind) == SelectSeq(log[p], LAMBDA e : e.ev = kind)
EventsOf(p, kind, name) == SelectSeq(log[p], LAMBDA e : e.ev = kind /\ e.name = name)
Happened(p, kind) == Events(p, kind) # <<>>

\* The names of the migration files of the directory.
Discovered == { e.name : e \in { d \in migrationsDir : d.ext = "sql" } }

\* A lookup of this run raised and was answered "not applied".
LookupFailed(p) == \E k \in 1..Len(log[p]) : log[p][k].ev = "lookup" /\ ~log[p][k].ok

\* The names recorded when the run of p started.
TrackedAtStart(p) == Range(startDb[p].migrations)

\* The run of p is past its loop over the migration files.
PastLoop(p) == pc[p] \in {"seed", "seed_insert", "seed_fallback", "seed_commit", "returned"}

(* ------------------------------------------------------------------- C1 *)
\* C1 (as claimed): when main() is run a second time after a run that went
\* through to its end, the second run takes the "Skipping" branch for every
\* unit, executes no migration statement, inserts nothing into
\* schema_migrations and leaves the tracked names as the first run left them.
C1_SecondRunSkipsAll ==
    (run[P1] >= 2 /\ prevOutcome[P1] = "returned" /\ HasConnection(P1)) =>
        /\ ~Happened(P1, "print_applying")
        /\ ~Happened(P1, "exec")
        /\ ~Happened(P1, "insert")
        /\ Range(schema_migrations) = TrackedAtStart(P1)
        /\ PastLoop(P1) => Len(Events(P1, "print_skipping")) = Cardinality(Discovered)

\* What the code does keep: a unit that was recorded when the run started is
\* applied again only when its lookup raised.
ReappliedOnlyAfterFailedLookup ==
    \A k \in 1..Len(log[P1]) :
        (log[P1][k].ev = "print_applying" /\ log[P1][k].name \in TrackedAtStart(P1)) =>
            /\ k > 1
            /\ log[P1][k - 1].ev = "lookup"
            /\ log[P1][k - 1].name = log[P1][k].name
            /\ ~log[P1][k - 1].ok

(* ------------------------------------------------------------------- C2 *)
\* The runs of p1 in which a statement of unit n was executed.
RunsExecuting(n) == { r \in 1..run[P1] : <<n, P1, r>> \in execRuns }

\* C2 (as claimed): over any sequence of runs, lookup errors included, the
\* statements of a unit are executed in at most one run, and only when its
\* name is not recorded in schema_migrations.
C2_AtMostOnce ==
    /\ \A n \in NameUniverse : Cardinality(RunsExecuting(n)) <= 1
    /\ \A k \in 1..Len(log[P1]) :
         log[P1][k].ev = "exec" => log[P1][k].name \notin TrackedAtStart(P1)

(* ------------------------------------------------------------------- C3 *)
\* The lexical order of the file names "1", "10", "2", written out.
ExpectedOrder == << <<1>>, <<1, 0>>, <<2>> >>
Rank(n) == CHOOSE k \in 1..Len(ExpectedOrder) : ExpectedOrder[k] = n

\* C3: within one run the units are applied in strictly ascending lexical
\* order of file name, whatever the order of the directory listing, and none
\* is passed over: when a unit is applied, every discovered unit with a
\* smaller name is recorded already or was applied earlier in the run.
C3_AppliedInLexicalOrder ==
    LET applied == Events(P1, "print_applying") IN
    /\ \A a, b \in 1..Len(applied) :
         a < b => Rank(applied[a].name) < Rank(applied[b].name)
    /\ \A b \in 1..Len(applied) : \A n \in Discovered :
         Rank(n) < Rank(applied[b].name) =>
            \/ n \in VisibleNames(P1)
            \/ \E a \in 1..(b - 1) : applied[a].name = n
    /\ \A k \in 1..Len(applied) : applied[k].name \in Discovered

\* Witness of C3: "1", "10" and "2" have been applied in one run, in that order.
C3_Witness ==
    LET applied == Events(P1, "print_applying") IN
    /\ Len(applied) = 3
    /\ applied[1].name = <<1>> /\ applied[2].name = <<1, 0>> /\ applied[3].name = <<2>>
    /\ Range(schema_migrations) = NameUniverse

(* ------------------------------------------------------------------- C4 *)
\* The statements of the three-statement file, written out.
ThreeStatementText == <<"a", ";", " ", "b", ";", ";", "c">>
ThreeStatements == << <<"a">>, <<"b">>, <<"c">> >>
ExpectedStatements(text) == IF text = ThreeStatementText THEN ThreeStatements ELSE <<>>

\* C4: apply_migration attempts every non-empty statement of the unit once,
\* in file order, whichever of the earlier ones raised; the INSERT into
\* schema_migrations comes only after the last statement was attempted, and
\* the unit then is recorded.
C4_StatementsIsolated ==
    /\ \A d \in {e \in migrationsDir : e.ext = "sql"} :
        LET expected == ExpectedStatements(d.text)
            steps == SelectSeq(log[P1],
                        LAMBDA e : e.name = d.name /\ e.ev \in {"exec", "insert", "commit", "raise"})
            inserted == \E m \in 1..Len(steps) : steps[m].ev = "insert"
        IN
        /\ Len(steps) <= Len(expected) + 2
        /\ \A m \in 1..Len(steps) :
              IF m <= Len(expected)
              THEN steps[m].ev = "exec" /\ steps[m].idx = m /\ steps[m].stmt = expected[m]
              ELSE IF m = Len(expected) + 1
              THEN steps[m].ev = "insert"
              ELSE /\ steps[m].ev = (IF steps[m - 1].ok THEN "commit" ELSE "raise")
                   /\ d.name \in Range(schema_migrations)
        /\ (pc[P1] = "exec" /\ Current(P1).name = d.name) => ~inserted
        /\ (pc[P1] \in {"commit", "raised"} /\ Current(P1).name = d.name) => inserted
    /\ LET n == Len(log[P1]) IN
       (n > 0 /\ log[P1][n].ev = "print_applying") => pc[P1] = "exec"

\* Witness of C4: the second of a unit's three statements failed, the first
\* and third ran, and the unit is recorded.
C4_Witness ==
    \E n \in NameUniverse :
        LET execs == EventsOf(P1, "exec", n) IN
        /\ Len(execs) = 3
        /\ execs[1].ok /\ ~execs[2].ok /\ execs[3].ok
        /\ EventsOf(P1, "commit", n) # <<>>
        /\ n \in Range(schema_migrations)

(* ------------------------------------------------------------------- C5 *)
\* The users rows there are, committed or not.
AllUsers == users \o pendingUsers[P1]

\* C5: after any number of runs users holds at most one 'admin' row, and
\* exactly one after a run whose seeding step did not fail; a run that starts
\* with the 'admin' row present issues no INSERT and leaves users, the row's
\* password hash and role included, as it was.
C5_AdminSeededOnce ==
    /\ Len(AdminRows(AllUsers)) <= 1
    /\ (pc[P1] = "returned" /\ ~Happened(P1, "print_warning_admin")) =>
          Len(AdminRows(users)) = 1
    /\ AdminRows(startDb[P1].users) # <<>> =>
          /\ users = startDb[P1].users
          /\ pendingUsers[P1] = <<>>
          /\ ~Happened(P1, "seed_insert_role")
          /\ ~Happened(P1, "seed_insert_norole")

\* Witness of C5: a second run has found the row of the first run, whose
\* hash carries the first run's salt, and has returned.
C5_Witness ==
    /\ run[P1] = 2
    /\ pc[P1] = "returned"
    /\ \E k \in 1..Len(log[P1]) :
          log[P1][k].ev = "seed_select" /\ log[P1][k].ok /\ log[P1][k].idx = 1
    /\ Len(users) = 1
    /\ users[1].username = AdminUsername
    /\ users[1].password_hash.salt = <<P1, 1>>

(* ------------------------------------------------------------------- C6 *)
ConnectPcs == {"import", "direct", "tmp", "create", "retry"}
ConnectionEvents == {"connect", "tmp_connect", "create_db", "tmp_close"}

C7_NeverRaises == HasConnection(P1) => pc[P1] # "raised"

\* What the code does keep: main() raises only after a lookup has raised.
RaisesOnlyAfterFailedLookup == pc[P1] = "raised" => LookupFailed(P1)

(* ------------------------------------------------------------------- C8 *)
\* C8 (as claimed): one call of connect_mysql(True) performs at most one
\* create-database-then-reconnect sequence (a direct connect, one
\* server-level connect, one retry of the direct connect) and attempts no
\* connection after it.
C8_SingleSequence ==
    /\ Len(Events(P1, "tmp_connect")) <= 1
    /\ Len(Events(P1, "connect")) <= 2

EventsBy(p, kind, d) == SelectSeq(log[p], LAMBDA e : e.ev = kind /\ e.idx = d)

\* C8 (amended): one call performs at most one such sequence for each driver
\* library, in the order pymysql, mysql.connector; it attempts nothing after
\* a connect has succeeded or after the last driver's sequence has failed,
\* and then returns None.
C8_OneSequencePerDriver ==
    /\ \A d \in 1..Len(DriverOrder) :
          /\ Len(EventsBy(P1, "tmp_connect", d)) <= 1
          /\ Len(EventsBy(P1, "create_db", d)) <= 1
          /\ Len(EventsBy(P1, "connect", d)) <= 2
          /\ DriverOrder[d] \notin drivers => Len(EventsBy(P1, "connect", d)) = 0
    /\ LET attempts == SelectSeq(log[P1], LAMBDA e : e.ev \in ConnectionEvents) IN
       \A a \in 1..(Len(attempts) - 1) :
          /\ attempts[a].idx <= attempts[a + 1].idx
          /\ ~(attempts[a].ev = "connect" /\ attempts[a].ok)
    /\ (pc[P1] \notin ConnectPcs /\ run[P1] >= 1) =>
          (conn[P1] = "none" <=>
              ~\E k \in 1..Len(log[P1]) : log[P1][k].ev = "connect" /\ log[P1][k].ok)

\* Witness of C8: both drivers' sequences were entered and failed, and
\* connect_mysql returned None.
C8_Witness ==
    /\ Len(Events(P1, "tmp_connect")) = 2
    /\ conn[P1] = "none"
    /\ pc[P1] = "noconn"

(* ------------------------------------------------------------------- C9 *)
OpenConnsOf(p) == {c \in openConns : c.owner = p}

\* C9 (as claimed): every connection obtained is closed by the time its
\* caller's scope ends: when main() has ended, none of its connections,
\* the temporary one of connect_mysql included, is open.
C9_ConnectionsClosed == pc[P1] \in Terminal => OpenConnsOf(P1) = {}

(* ------------------------------------------ two operators, concurrently *)
\* Number of injected failures in the concurrent scenario.
MaxFaultsConc == 1

\* The directories of the concurrent scenario: at most the files "1" and "2".
ConcDirectories == { d \in Directories : <<1, 0>> \notin { e.name : e \in d } }

\* The servers the two operators may find: a fresh server on a host with
\* one driver library; a database with its users table and no record; the
\* same with the record of an earlier run of the unit "1".
ConcServers ==
    { [db |-> FALSE, users |-> "missing", migrations |-> <<>>, drivers |-> {"pymysql"}],
      [db |-> TRUE, users |-> "role", migrations |-> <<>>, drivers |-> Range(DriverOrder)],
      [db |-> TRUE, users |-> "role", migrations |-> << <<1>> >>, drivers |-> Range(DriverOrder)] }

\* Two operators start "python migrate.py" once each against one database.
InitConc ==
    /\ \E s \in ConcServers :
        /\ dbExists = s.db
        /\ schema_migrations = s.migrations
        /\ usersSchema = s.users
        /\ drivers = s.drivers
    /\ trackingTable = (schema_migrations # <<>>)
    /\ users = <<>>
    /\ pendingMig = [p \in Procs |-> <<>>]
    /\ pendingUsers = [p \in Procs |-> <<>>]
    /\ openConns = {}
    /\ migrationsDir \in ConcDirectories
    /\ faults = 0
    /\ faultBudget = MaxFaultsConc
    /\ InitProcs
    /\ InitSingleDb
    /\ InitNoWeb

NextConc ==
    \E p \in Procs :
        \/ StartMain(p, 1)
        \/ ConnectStep(p)
        \/ MainStep(p)

SpecConc == InitConc /\ [][NextConc]_vars

(* ------------------------------------------------------------------ C10 *)
P2 == "p2"

\* The lookup of p for unit n succeeded, found no row, and p went on to
\* apply n.
ObservedNotApplied(p, n) ==
    \E k \in 1..(Len(log[p]) - 1) :
        /\ log[p][k].ev = "lookup" /\ log[p][k].name = n /\ log[p][k].ok
        /\ log[p][k + 1].ev = "print_applying" /\ log[p][k + 1].name = n

\* Both processes saw n as not applied and both executed statements of n.
BothExecuted(n) ==
    \A p \in Procs : ObservedNotApplied(p, n) /\ EventsOf(p, "exec", n) # <<>>

RowsNamed(n) == SelectSeq(schema_migrations, LAMBDA m : m = n)

\* C10: when two concurrent runs both saw a unit as not applied and both
\* executed its statements, the INSERT into schema_migrations of exactly one
\* of them succeeds; the other's fails on the UNIQUE constraint, and that
\* process's run ends there with the error unhandled.
C10_OneInsertWins ==
    \A n \in NameUniverse : BothExecuted(n) =>
        LET ins(p) == EventsOf(p, "insert", n) IN
        /\ ~(ins(P1) # <<>> /\ ins(P2) # <<>> /\ ins(P1)[1].ok = ins(P2)[1].ok)
        /\ Len(RowsNamed(n)) <= 1
        /\ \A p \in Procs :
              /\ Len(ins(p)) <= 1
              /\ (ins(p) # <<>> /\ ~ins(p)[1].ok) =>
                    /\ pc[p] = "raised"
                    /\ log[p][Len(log[p])].ev = "raise"
                    /\ log[p][Len(log[p]) - 1] = ins(p)[1]
                    /\ Len(RowsNamed(n)) = 1
              /\ (ins(p) # <<>> /\ ins(p)[1].ok) => pc[p] # "raised"

\* Witness of C10: the three statements of one unit ran in both processes;
\* one INSERT succeeded and was committed, the other raised.
C10_Witness ==
    \E n \in NameUniverse :
        /\ BothExecuted(n)
        /\ \A p \in Procs : Len(EventsOf(p, "exec", n)) = 3
        /\ EventsOf(P1, "insert", n) # <<>> /\ EventsOf(P1, "insert", n)[1].ok
        /\ EventsOf(P1, "commit", n) # <<>>
        /\ EventsOf(P2, "insert", n) # <<>> /\ ~EventsOf(P2, "insert", n)[1].ok
        /\ pc[P2] = "raised"

(* ------------------------------------------------------------------ C11 *)
\* The rows named n there are in schema_migrations, the uncommitted rows
\* of every session included.
RowCount(n) ==
    Len(RowsNamed(n))
    + Len(SelectSeq(pendingMig[P1], LAMBDA m : m = n))
    + Len(SelectSeq(pendingMig[P2], LAMBDA m : m = n))

\* In this step process p has issued the INSERT into schema_migrations:
\* the event it has logged.
RecordAttempt(p) ==
    IF Len(log'[p]) = Len(log[p]) + 1
    THEN log'[p][Len(log'[p])]
    ELSE log'[p][Len(log'[p]) - 1]
Recording(p) ==
    /\ pc[p] = "exec"
    /\ log'[p] # log[p]
    /\ RecordAttempt(p).ev = "insert"

\* C11: schema_migrations holds at most one row per migration name in every
\* state, whether the runs follow one another or overlap; an INSERT of a
\* name that has a row already fails with an error (the run ends raising),
\* and it leaves the table as it was: no second row, and not a silent skip.
C11_UniqueNames ==
    /\ [](\A n \in NameUniverse : RowCount(n) <= 1)
    /\ [][\A p \in Procs : Recording(p) =>
            LET e == RecordAttempt(p) IN
            /\ e.ok <=> e.name \notin Range(schema_migrations)
            /\ ~e.ok =>
                /\ schema_migrations' = schema_migrations
                /\ pendingMig' = pendingMig
                /\ log'[p][Len(log'[p])].ev = "raise"
                /\ pc'[p] = "raised"
            /\ e.ok => pendingMig'[p] = Append(pendingMig[p], e.name)]_vars

\* Witness of C11: a unit that an earlier run had recorded was applied again
\* after a failed lookup; its INSERT raised and the table holds the one row.
C11_Witness ==
    \E p \in Procs : \E n \in NameUniverse :
        /\ n \in TrackedAtStart(p)
        /\ pc[p] = "raised"
        /\ EventsOf(p, "insert", n) # <<>>
        /\ ~EventsOf(p, "insert", n)[1].ok
        /\ schema_migrations = startDb[p].migrations
        /\ Len(RowsNamed(n)) = 1

(* ------------------------------------------------------------------ C12 *)
\* C12: no step of migrate.py removes or alters a row of schema_migrations:
\* across every step, of runs with failing statements or a failing INSERT
\* too, the rows there were stay, in place, and the table is not dropped.
C12_TrackingMonotonic ==
    [][/\ Len(schema_migrations') >= Len(schema_migrations)
       /\ SubSeq(schema_migrations', 1, Len(schema_migrations)) = schema_migrations
       /\ trackingTable => trackingTable']_vars

\* Witness of C12: a second run in which a statement failed and the INSERT
\* raised has ended, and the rows of the first run are all there.
C12_Witness ==
    /\ run[P1] = 2
    /\ pc[P1] = "raised"
    /\ \E k \in 1..Len(log[P1]) : log[P1][k].ev = "exec" /\ ~log[P1][k].ok
    /\ schema_migrations # <<>>
    /\ schema_migrations = startDb[P1].migrations

(* ------------------------------------- already_applied, called directly *)
\* Number of calls of already_applied the caller makes.
MaxCalls == 2

\* The contents schema_migrations can have: the names of NameUniverse, each
\* at most once, in any order.
RecordSeqs ==
    UNION { { s \in [1..n -> NameUniverse] : \A a, b \in 1..n : a # b => s[a] # s[b] } :
            n \in 0..Cardinality(NameUniverse) }

\* A connection to a database in which the tracking table is missing, or is
\* there with any contents.
InitLookup ==
    /\ dbExists = TRUE
    /\ trackingTable \in BOOLEAN
    /\ schema_migrations \in IF trackingTable THEN RecordSeqs ELSE {<<>>}
    /\ usersSchema = "missing"
    /\ users = <<>>
    /\ pendingMig = [p \in Procs |-> <<>>]
    /\ pendingUsers = [p \in Procs |-> <<>>]
    /\ openConns = {}
    /\ migrationsDir = {ReadmeEntry}
    /\ drivers = Range(DriverOrder)
    /\ faults = 0
    /\ faultBudget = MaxFaults
    /\ InitProcs
    /\ InitSingleDb
    /\ InitNoWeb

\* already_applied(cur, name): the SELECT, which raises when the table is
\* missing or on a failure, and the value returned (idx 1 for True, 0 for
\* False).
CallAlreadyApplied(p) ==
    /\ Len(log[p]) < 2 * MaxCalls
    /\ \E name \in NameUniverse : \E err \in FaultChoices :
        /\ Fault(err)
        /\ Append2(p, Ev("lookup", name, 0, ~err /\ trackingTable),
                      Ev("return", name, IF AlreadyApplied(p, name, err) THEN 1 ELSE 0, TRUE))
    /\ UNCHANGED <<dbVars, envVars, histVars, openConns, pc, run, locVars>>

NextLookup == CallAlreadyApplied("p1")

SpecLookup == InitLookup /\ [][NextLookup]_vars

(* ------------------------------------------------------------------ C13 *)
\* C13: already_applied never raises to its caller: every call returns a
\* value.  It returns True exactly when the SELECT succeeded and
\* schema_migrations has a row with the name; it returns False when there
\* is no such row and when the SELECT raised, the tracking table being
\* missing included.
C13_LenientLookup ==
    LET L == log[P1] IN
    /\ Len(L) % 2 = 0
    /\ \A k \in 1..Len(L) :
        /\ L[k].ev \in {"lookup", "return"}
        /\ L[k].ev = "lookup" =>
              /\ L[k + 1].ev = "return"
              /\ L[k + 1].name = L[k].name
              /\ L[k].ok => trackingTable
              /\ L[k + 1].idx = 1 <=> (L[k].ok /\ L[k].name \in Range(schema_migrations))
              /\ L[k + 1].idx = 0 <=> (~L[k].ok \/ L[k].name \notin Range(schema_migrations))
    /\ pc[P1] # "raised"

\* Witness of C13: with the tracking table missing a call has returned
\* False after its SELECT raised.
C13_Witness ==
    /\ ~trackingTable
    /\ Len(log[P1]) >= 2
    /\ log[P1][1].ev = "lookup" /\ ~log[P1][1].ok
    /\ log[P1][2].ev = "return" /\ log[P1][2].idx = 0

(* ------------------------------------------------------------------ C14 *)
\* The recoverable errors of a run: a statement that raised, a lookup that
\* raised, a seeding step that raised.
IsFailure(e) ==
    /\ ~e.ok
    /\ e.ev \in {"exec", "lookup", "seed_select", "seed_insert_norole"}

\* C14 (as claimed): every failing statement, every failed lookup and every
\* failure of the admin seeding is followed by a line printed for the
\* operator, the failed lookup being flagged by the caller, and a run in
\* which one of them happened does not end by raising: it goes on through
\* the remaining units to "Migrations complete.".
C14_ErrorsReportedRunGoesOn ==
    LET L == log[P1] IN
    /\ \A k \in 1..Len(L) : IsFailure(L[k]) =>
          /\ k < Len(L)
          /\ L[k + 1].ev = (IF L[k].ev = "exec" THEN "print_warning_statement"
                            ELSE IF L[k].ev = "lookup" THEN "print_warning_lookup"
                            ELSE "print_warning_admin")
    /\ (\E k \in 1..Len(L) : IsFailure(L[k])) => pc[P1] # "raised"
    /\ (PastLoop(P1) /\ pc[P1] # "seed") => Happened(P1, "print_complete")

\* What the code does keep: a failing statement and a failed seeding are
\* each followed by their warning line, and neither ends the run.
StatementAndSeedFailuresReported ==
    LET L == log[P1] IN
    /\ \A k \in 1..Len(L) : (IsFailure(L[k]) /\ L[k].ev # "lookup") =>
          /\ k < Len(L)
          /\ L[k + 1].ev = (IF L[k].ev = "exec" THEN "print_warning_statement"
                            ELSE "print_warning_admin")
    /\ pc[P1] = "raised" => LookupFailed(P1)

\* What the code does on a failed lookup: the next line printed is
\* "Applying <name>", the same as for a unit that has no record.
FailedLookupPrintsApplying ==
    LET L == log[P1] IN
    \A k \in 1..Len(L) : (L[k].ev = "lookup" /\ ~L[k].ok) =>
        /\ k < Len(L)
        /\ L[k + 1].ev = "print_applying"
        /\ L[k + 1].name = L[k].name

(* ------------------------------------------------------------------ C15 *)
SeedEvents ==
    {"seed_select", "seed_insert_role", "seed_insert_norole", "seed_commit",
     "print_warning_admin", "print_admin_created"}

\* The events of the seeding step of the run, in order.
SeedLog(p) == SelectSeq(log[p], LAMBDA e : e.ev \in SeedEvents)

C15_WitnessBothFail ==
    LET S == SeedLog(P1) IN
    /\ pc[P1] = "returned"
    /\ Len(S) = 4
    /\ S[3].ev = "seed_insert_norole" /\ ~S[3].ok
    /\ S[4].ev = "print_warning_admin"
    /\ AdminRows(users) = <<>>

(* ------------------------------------------------------------------ C18 *)
\* The events of main() after connect_mysql has returned.
MainLog(p) == SelectSeq(log[p], LAMBDA e : e.ev \notin ConnectionEvents)

SetMysqlDb(d) ==
    /\ \A p \in Procs : pc[p] \in Terminal \cup {"idle"}
    /\ d # mysqlDb
    /\ mysqlDb' = d
    /\ IF ConfiguredDatabase(d) # ConfiguredDatabase(mysqlDb)
       THEN /\ dbExists' = otherDb.exists
            /\ trackingTable' = otherDb.table
            /\ schema_migrations' = otherDb.migrations
            /\ usersSchema' = otherDb.usersSchema
            /\ users' = otherDb.users
            /\ baseTables' = otherDb.baseTables
            /\ roleCurrent' = otherDb.roleCurrent
            /\ otherDb' = ThisDatabase
       ELSE UNCHANGED <<dbExists, trackingTable, schema_migrations, usersSchema, users,
                        baseTables, roleCurrent, otherDb>>
    /\ UNCHANGED <<pendingMig, pendingUsers, openConns, migrationsDir, drivers, faults,
                   faultBudget, pc, run, locVars, log, histVars, teardown, g, reqVars>>

\* One operator, one driver library, the default database there or not, a
\* second database there (empty) or not.
InitIso ==
    /\ dbExists \in BOOLEAN
    /\ trackingTable = FALSE
    /\ schema_migrations = <<>>
    /\ usersSchema = (IF dbExists THEN "role" ELSE "missing")
    /\ users = <<>>
    /\ pendingMig = [p \in Procs |-> <<>>]
    /\ pendingUsers = [p \in Procs |-> <<>>]
    /\ openConns = {}
    /\ migrationsDir \in ConcDirectories
    /\ drivers = {"pymysql"}
    /\ faults = 0
    /\ faultBudget = MaxFaultsConc
    /\ InitProcs
    /\ mysqlDb = "unset"
    /\ otherDb \in {NoDatabase, EmptyDatabase}
    /\ InitNoWeb

NextIso ==
    \/ \E d \in MysqlDbValues : SetMysqlDb(d)
    \/ StartMain("p1", MaxRuns)
    \/ ConnectStep("p1")
    \/ MainStep("p1")

SpecIso == InitIso /\ [][NextIso]_vars

(* ------------------------------------------------------------------ C19 *)
\* The database the operator has named for the run.
NamedDatabase == IF mysqlDb = "unset" THEN DefaultDatabase ELSE mysqlDb

\* The names recorded in database d, and its users rows.
TrackedIn(d) ==
    IF d = ConfiguredDatabase(mysqlDb) THEN Range(schema_migrations)
    ELSE Range(otherDb.migrations)
UsersIn(d) == IF d = ConfiguredDatabase(mysqlDb) THEN users ELSE otherDb.users

\* The line "Skipping <name>" or "Applying <name>" that p prints in this
\* step, and the lookup before it.
LinePrinted(p) == log'[p][Len(log'[p])]
LookupDone(p) == log'[p][Len(log'[p]) - 1]
PrintsLine(p) ==
    /\ pc[p] = "loop"
    /\ Len(log'[p]) = Len(log[p]) + 2
    /\ LinePrinted(p).ev \in {"print_skipping", "print_applying"}

\* C19: a run configured for one database reads and writes the
\* schema_migrations and users tables of that database only: no step of
\* the run changes the recorded names or the users rows of a database with
\* another name, and a unit is skipped exactly when its name is recorded in
\* the run's own database (its lookup succeeding), whatever is recorded in
\* another.
C19_TrackingIsolated ==
    [][mysqlDb' = mysqlDb =>
        /\ \A d \in DatabaseNames \ {NamedDatabase} :
              /\ TrackedIn(d)' = TrackedIn(d)
              /\ UsersIn(d)' = UsersIn(d)
        /\ PrintsLine(P1) =>
              /\ LinePrinted(P1).ev = "print_skipping" =>
                    LinePrinted(P1).name \in TrackedIn(NamedDatabase)
              /\ (LinePrinted(P1).ev = "print_applying" /\ LookupDone(P1).ok) =>
                    LinePrinted(P1).name \notin TrackedIn(NamedDatabase)]_vars

\* Witness of C19: a unit recorded in the database "todolist" was looked
\* up, found absent and applied by a run against "staging", and is now
\* recorded in both.
C19_Witness ==
    \E n \in NameUniverse :
        /\ mysqlDb = "staging"
        /\ pc[P1] = "returned"
        /\ ObservedNotApplied(P1, n)
        /\ n \in TrackedIn("todolist")
        /\ n \in TrackedIn("staging")

(* ------------------------------------------------- main.py: create_app *)
\* Number of times the web application is started.
MaxStarts == 2

BaseTableNames == {"tasks", "subtasks"}

\* The function create_app registers with app.teardown_appcontext.
RegisteredTeardown == {"close_db"}

\* The users, tasks and subtasks tables and the rows of users.
Schema ==
    [usersSchema |-> usersSchema, roleCurrent |-> roleCurrent,
     baseTables |-> baseTables, users |-> users]

\* The schema ensure_schema aims at.
IsCurrent ==
    /\ usersSchema = "role"
    /\ roleCurrent
    /\ baseTables = BaseTableNames

\* "python main.py": a new process calls create_app(); the connections of
\* the process before it are gone.
StartApp(p, limit) ==
    /\ pc[p] \in {"idle", "app_ready", "app_raised"}
    /\ run[p] < limit
    /\ run' = [run EXCEPT ![p] = @ + 1]
    /\ pc' = [pc EXCEPT ![p] = "app_config"]
    /\ openConns' = {c \in openConns : c.owner # p}
    /\ drv' = [drv EXCEPT ![p] = 1]
    /\ conn' = [conn EXCEPT ![p] = "none"]
    /\ log' = [log EXCEPT ![p] = <<>>]
    /\ teardown' = {}
    /\ g' = [g EXCEPT ![p] = "none"]
    /\ UNCHANGED <<dbVars, migrationsDir, drivers, faults, faultBudget, mysqlDb, otherDb,
                   baseTables, roleCurrent, reqVars, paths, i, stmts, j, adminHash,
                   histVars>>

\* A plausible slip: no try around the schema assurance of create_app.
AfterStartupErrorRaise(p) == pc' = [pc EXCEPT ![p] = "app_raised"]

\* "except Exception: pass" of create_app: the routes are registered next.
AfterStartupError(p) == pc' = [pc EXCEPT ![p] = "app_routes"]

\* "cfg = mysql_config()" at the head of connect_mysql(True), inside the
\* try of create_app: int(MYSQL_PORT) raises when the variable is not a
\* number.
AppConfig(p) ==
    /\ pc[p] = "app_config"
    /\ \E err \in FaultChoices :
        /\ Fault(err)
        /\ Append1(p, Ev("config", NoName, 0, ~err))
        /\ IF err THEN AfterStartupError(p) ELSE pc' = [pc EXCEPT ![p] = "import"]
    /\ UNCHANGED <<dbVars, envVars, histVars, openConns, run, locVars>>

\* "if conn is not None" is false: ensure_schema is not called.
AppNoConnection(p) ==
    /\ pc[p] = "connect_ret"
    /\ ~HasConnection(p)
    /\ pc' = [pc EXCEPT ![p] = "app_routes"]
    /\ UNCHANGED <<dbVars, envVars, histVars, openConns, faults, run, locVars, log>>

\* A plausible slip: CREATE TABLE without IF NOT EXISTS.
CreateRaisesIfExists(exists) == exists

\* CREATE TABLE IF NOT EXISTS: an existing table is no error.
CreateRaises(exists) == FALSE

\* ensure_schema: CREATE TABLE IF NOT EXISTS users (...), the role column
\* as it is now defined.  A data definition statement commits itself.
EsUsers(p) ==
    /\ pc[p] = "connect_ret"
    /\ HasConnection(p)
    /\ \E err \in FaultChoices :
        /\ Fault(err)
        /\ IF err \/ CreateRaises(usersSchema # "missing")
           THEN /\ Append1(p, Ev("es_users", NoName, 0, FALSE))
                /\ AfterStartupError(p)
                /\ UNCHANGED usersSchema
           ELSE /\ Append1(p, Ev("es_users", NoName, 0, TRUE))
                /\ pc' = [pc EXCEPT ![p] = "es_role"]
                /\ usersSchema' = (IF usersSchema = "missing" THEN "role" ELSE usersSchema)
    /\ UNCHANGED <<dbExists, trackingTable, schema_migrations, users, pendingMig,
                   pendingUsers, envVars, histVars, openConns, run, locVars>>

\* ALTER TABLE users ADD COLUMN role ... NOT NULL DEFAULT 'customer': the
\* rows there are get the default.
WithDefaultRole(rows) == [k \in 1..Len(rows) |-> [rows[k] EXCEPT !.role = "customer"]]

\* ensure_schema: the role column is looked for in INFORMATION_SCHEMA and
\* added (idx 0) or redefined (idx 1); whatever raises in this block is
\* passed over.
EsRole(p) ==
    /\ pc[p] = "es_role"
    /\ \E err \in FaultChoices :
        /\ Fault(err)
        /\ Append1(p, Ev("es_role", NoName, IF usersSchema = "norole" THEN 0 ELSE 1, ~err))
        /\ IF err
           THEN UNCHANGED <<usersSchema, users, roleCurrent>>
           ELSE /\ usersSchema' = "role"
                /\ roleCurrent' = TRUE
                /\ users' = (IF usersSchema = "norole" THEN WithDefaultRole(users) ELSE users)
    /\ pc' = [pc EXCEPT ![p] = "es_tasks"]
    /\ UNCHANGED <<dbExists, trackingTable, schema_migrations, pendingMig, pendingUsers,
                   migrationsDir, drivers, faultBudget, mysqlDb, otherDb, baseTables,
                   teardown, g, reqVars, histVars, openConns, run, locVars>>

\* ensure_schema: CREATE TABLE IF NOT EXISTS tasks / subtasks
EsBaseTable(p, at, table, next) ==
    /\ pc[p] = at
    /\ \E err \in FaultChoices :
        /\ Fault(err)
        /\ IF err \/ CreateRaises(table \in baseTables)
           THEN /\ Append1(p, Ev(at, NoName, 0, FALSE))
                /\ AfterStartupError(p)
                /\ UNCHANGED baseTables
           ELSE /\ Append1(p, Ev(at, NoName, 0, TRUE))
                /\ pc' = [pc EXCEPT ![p] = next]
                /\ baseTables' = baseTables \cup {table}
    /\ UNCHANGED <<dbVars, migrationsDir, drivers, faultBudget, mysqlDb, otherDb,
                   roleCurrent, teardown, g, reqVars, histVars, openConns, run,
                   locVars>>
EsTasks(p) == EsBaseTable(p, "es_tasks", "tasks", "es_subtasks")
EsSubtasks(p) == EsBaseTable(p, "es_subtasks", "subtasks", "es_commit")

\* ensure_schema: conn.commit()
EsCommit(p) ==
    /\ pc[p] = "es_commit"
    /\ \E err \in FaultChoices :
        /\ Fault(err)
        /\ Append1(p, Ev("es_commit", NoName, 0, ~err))
        /\ IF err THEN AfterStartupError(p) ELSE pc' = [pc EXCEPT ![p] = "app_close"]
    /\ UNCHANGED <<dbVars, envVars, histVars, openConns, run, locVars>>

\* conn.close() of create_app; when it raises the connection is left as it is.
AppClose(p) ==
    /\ pc[p] = "app_close"
    /\ \E err \in FaultChoices :
        /\ Fault(err)
        /\ Append1(p, Ev("app_close", NoName, 0, ~err))
        /\ IF err
           THEN /\ AfterStartupError(p)
                /\ UNCHANGED openConns
           ELSE /\ pc' = [pc EXCEPT ![p] = "app_routes"]
                /\ openConns' = {c \in openConns : ~(c.owner = p /\ c.kind = "db")}
    /\ UNCHANGED <<dbVars, envVars, histVars, run, locVars>>

\* The routes are defined, close_db is registered, the app is returned.
AppReturn(p) ==
    /\ pc[p] = "app_routes"
    /\ teardown' = RegisteredTeardown
    /\ Append1(p, Ev("app_return", NoName, 0, TRUE))
    /\ pc' = [pc EXCEPT ![p] = "app_ready"]
    /\ UNCHANGED <<dbVars, migrationsDir, drivers, faultBudget, mysqlDb, otherDb,
                   baseTables, roleCurrent, g, reqVars, histVars, openConns, faults, run,
                   locVars>>

AppStep(p) ==
    \/ AppConfig(p)
    \/ AppNoConnection(p)
    \/ EsUsers(p)
    \/ EsRole(p)
    \/ EsTasks(p)
    \/ EsSubtasks(p)
    \/ EsCommit(p)
    \/ AppClose(p)
    \/ AppReturn(p)

\* The row of an account made before the application is started.
EarlierAdmin ==
    AdminRow(GeneratePasswordHash("admin@123", <<"p1", 0>>),
             IF usersSchema = "role" THEN "admin" ELSE "none")

\* The database the application finds: missing, or there with none, some or
\* all of its tables; users without the role column, with a narrower
\* definition of it, or as it is now defined; users empty or with a row.
InitApp ==
    /\ dbExists \in BOOLEAN
    /\ trackingTable = FALSE
    /\ schema_migrations = <<>>
    /\ usersSchema \in IF dbExists THEN {"missing", "norole", "role"} ELSE {"missing"}
    /\ roleCurrent \in IF usersSchema = "role" THEN BOOLEAN ELSE {TRUE}
    /\ baseTables \in IF usersSchema = "missing" THEN { {} }
                      ELSE { {}, {"tasks"}, BaseTableNames }
    /\ users \in IF usersSchema = "missing" THEN { <<>> } ELSE { <<>>, <<EarlierAdmin>> }
    /\ pendingMig = [p \in Procs |-> <<>>]
    /\ pendingUsers = [p \in Procs |-> <<>>]
    /\ openConns = {}
    /\ migrationsDir = {ReadmeEntry}
    /\ drivers \in SUBSET Range(DriverOrder)
    /\ faults = 0
    /\ faultBudget = MaxFaults
    /\ InitProcs
    /\ InitSingleDb
    /\ teardown = {}
    /\ g = [p \in Procs |-> "none"]
    /\ InitNoRequests

NextApp ==
    \/ StartApp("p1", MaxStarts)
    \/ ConnectStep("p1")
    \/ AppStep("p1")

SpecApp == InitApp /\ [][NextApp]_vars

(* ------------------------------------------------------------------ C16 *)
\* The events of create_app after which the rest of its try block is not run.
StartupErrors == {"config", "es_users", "es_tasks", "es_subtasks", "es_commit", "app_close"}
EsEvents == {"es_users", "es_role", "es_tasks", "es_subtasks", "es_commit"}

\* C16: create_app() never ends by raising, and returns the application
\* with its teardown registered, in every case: no connection (then no
\* statement of ensure_schema is executed), connect_mysql raising,
\* ensure_schema raising at any of its statements, close raising.  After
\* any of these errors nothing more of the schema assurance is run.
C16_StartupNeverFails ==
    LET L == log[P1]
        n == Len(L)
    IN
    /\ \A p \in Procs : pc[p] # "app_raised"
    /\ pc[P1] = "app_ready" =>
          /\ teardown = RegisteredTeardown
          /\ L[n].ev = "app_return"
    /\ (pc[P1] \in {"app_routes", "app_ready"} /\ ~HasConnection(P1)) =>
          \A k \in 1..n : L[k].ev \notin EsEvents
    /\ \A k \in 1..n : (L[k].ev \in StartupErrors /\ ~L[k].ok) =>
          \/ k = n /\ pc[P1] = "app_routes"
          \/ k + 1 = n /\ L[n].ev = "app_return" /\ pc[P1] = "app_ready"

\* Witness of C16: CREATE TABLE tasks raised in ensure_schema, and
\* create_app has returned the application.
C16_Witness ==
    /\ pc[P1] = "app_ready"
    /\ teardown = RegisteredTeardown
    /\ \E k \in 1..Len(log[P1]) : log[P1][k].ev = "es_tasks" /\ ~log[P1][k].ok

\* The other cases of C16: connect_mysql raised; no connection; close raised.
C16_WitnessConfigRaises ==
    /\ pc[P1] = "app_ready"
    /\ \E k \in 1..Len(log[P1]) : log[P1][k].ev = "config" /\ ~log[P1][k].ok
C16_WitnessNoConnection ==
    /\ pc[P1] = "app_ready"
    /\ ~HasConnection(P1)
    /\ Happened(P1, "connect")
C16_WitnessCloseRaises ==
    /\ pc[P1] = "app_ready"
    /\ \E k \in 1..Len(log[P1]) : log[P1][k].ev = "app_close" /\ ~log[P1][k].ok

(* ------------------------------------------------------------------ C17 *)
\* The statements of ensure_schema that p has executed in this start.
EsLog(p) == SelectSeq(log[p], LAMBDA e : e.ev \in EsEvents)

\* An invocation of ensure_schema has gone through with no statement failing.
EnsuredCleanly(p) ==
    /\ Len(EsLog(p)) = Cardinality(EsEvents)
    /\ \A k \in 1..Len(EsLog(p)) : EsLog(p)[k].ok

\* C17: on a database where users, tasks and subtasks exist with the role
\* column as now defined, no step of ensure_schema changes the tables, the
\* columns or the rows, and none raises (a failure of the server or the
\* connection apart); an invocation that went through with no statement
\* failing leaves that schema, so every later invocation leaves the schema
\* as the first such invocation left it.
C17_EnsureSchemaIdempotent ==
    /\ [][IsCurrent => Schema' = Schema]_vars
    /\ [][(IsCurrent /\ faults' = faults /\ Len(log'[P1]) > Len(log[P1])) =>
            LET e == log'[P1][Len(log'[P1])] IN e.ev \in EsEvents => e.ok]_vars
    /\ [](EnsuredCleanly(P1) => IsCurrent)

\* Witness of C17: started a second time with no failure in either start,
\* the application has found the role column there, redefined it and gone
\* through ensure_schema; the schema is the current one and the row is there.
C17_Witness ==
    /\ run[P1] = 2
    /\ faults = 0
    /\ EnsuredCleanly(P1)
    /\ EsLog(P1)[2].idx = 1
    /\ IsCurrent
    /\ users # <<>>

(* ------------------------------------------- main.py: get_db and close_db *)
\* Number of requests each thread of the application serves, and of calls
\* of get_db() a request handler makes.
MaxRequests == 2
MaxGetDb == 2

\* The calls of get_db() made so far in the request of p.
GetDbCalls(p) == Len(SelectSeq(log[p], LAMBDA e : e.ev = "get_db"))

\* A request arrives: Flask pushes a new application context, whose g has
\* no attribute yet, and calls the route's handler.
BeginRequest(p) ==
    /\ pc[p] = "idle"
    /\ run[p] < MaxRequests
    /\ run' = [run EXCEPT ![p] = @ + 1]
    /\ pc' = [pc EXCEPT ![p] = "req"]
    /\ g' = [g EXCEPT ![p] = "none"]
    /\ conn' = [conn EXCEPT ![p] = "none"]
    /\ log' = [log EXCEPT ![p] = <<>>]
    /\ UNCHANGED <<dbVars, migrationsDir, drivers, faults, faultBudget, mysqlDb, otherDb,
                   baseTables, roleCurrent, teardown, reqVars, openConns, drv, paths,
                   i, stmts, j, adminHash, histVars>>

\* get_db() with g.db_conn set: the stored connection is returned.
GetDbStored(p) ==
    /\ pc[p] = "req"
    /\ GetDbCalls(p) < MaxGetDb
    /\ g[p] # "none"
    /\ Append2(p, Ev("get_db", NoName, 0, TRUE), Ev("get_db_return", NoName, 1, TRUE))
    /\ conn' = [conn EXCEPT ![p] = g[p]]
    /\ UNCHANGED <<dbVars, envVars, histVars, openConns, faults, pc, run, drv, paths,
                   i, stmts, j, adminHash>>

\* get_db() with nothing stored: connect_mysql(True) is called.
GetDbConnect(p) ==
    /\ pc[p] = "req"
    /\ GetDbCalls(p) < MaxGetDb
    /\ g[p] = "none"
    /\ Append1(p, Ev("get_db", NoName, 0, TRUE))
    /\ pc' = [pc EXCEPT ![p] = "req_config"]
    /\ drv' = [drv EXCEPT ![p] = 1]
    /\ conn' = [conn EXCEPT ![p] = "none"]
    /\ UNCHANGED <<dbVars, envVars, histVars, openConns, faults, run, paths, i, stmts,
                   j, adminHash>>

\* "cfg = mysql_config()" at the head of connect_mysql: when it raises,
\* get_db raises, and so does the handler, which calls get_db outside any try.
ReqConfig(p) ==
    /\ pc[p] = "req_config"
    /\ \E err \in FaultChoices :
        /\ Fault(err)
        /\ IF err
           THEN /\ Append2(p, Ev("config", NoName, 0, FALSE),
                              Ev("request_end", NoName, 0, FALSE))
                /\ pc' = [pc EXCEPT ![p] = "teardown"]
           ELSE /\ Append1(p, Ev("config", NoName, 0, TRUE))
                /\ pc' = [pc EXCEPT ![p] = "import"]
    /\ UNCHANGED <<dbVars, envVars, histVars, openConns, run, locVars>>

\* "if conn is not None: g.db_conn = conn" and "return conn"; idx 0 marks a
\* connection that this call has opened.
GetDbReturn(p) ==
    /\ pc[p] = "connect_ret"
    /\ g' = [g EXCEPT ![p] = IF HasConnection(p) THEN conn[p] ELSE @]
    /\ Append1(p, Ev("get_db_return", NoName, 0, HasConnection(p)))
    /\ pc' = [pc EXCEPT ![p] = "req"]
    /\ UNCHANGED <<dbVars, migrationsDir, drivers, faultBudget, mysqlDb, otherDb,
                   baseTables, roleCurrent, teardown, reqVars, histVars, openConns,
                   faults, run, locVars>>

\* The handler returns its response, or raises.
RequestEnds(p) ==
    /\ pc[p] = "req"
    /\ \E raised \in BOOLEAN : Append1(p, Ev("request_end", NoName, 0, ~raised))
    /\ pc' = [pc EXCEPT ![p] = "teardown"]
    /\ UNCHANGED <<dbVars, envVars, histVars, openConns, faults, run, locVars>>

\* The application context is popped: Flask calls the registered teardown
\* functions, after a response and after an exception alike.  close_db
\* closes g.db_conn when there is one; what close() raises is passed over,
\* and the connection is then left as it is.
Teardown(p) ==
    /\ pc[p] = "teardown"
    /\ IF "close_db" \in teardown /\ g[p] # "none"
       THEN \E err \in FaultChoices :
               /\ Fault(err)
               /\ Append1(p, Ev("close_db", NoName, 1, ~err))
               /\ openConns' = IF err THEN openConns
                               ELSE {c \in openConns :
                                        ~(c.owner = p /\ c.run = run[p] /\ c.kind = "db")}
       ELSE /\ Append1(p, Ev("close_db", NoName, 0, TRUE))
            /\ UNCHANGED <<openConns, faults>>
    /\ pc' = [pc EXCEPT ![p] = "idle"]
    /\ UNCHANGED <<dbVars, envVars, histVars, run, locVars>>

RequestStep(p) ==
    \/ BeginRequest(p)
    \/ GetDbStored(p)
    \/ GetDbConnect(p)
    \/ ReqConfig(p)
    \/ GetDbReturn(p)
    \/ RequestEnds(p)
    \/ Teardown(p)

\* create_app has returned the application (close_db is registered); the
\* database is there or not.
InitReq ==
    /\ dbExists \in BOOLEAN
    /\ trackingTable = FALSE
    /\ schema_migrations = <<>>
    /\ usersSchema = (IF dbExists THEN "role" ELSE "missing")
    /\ users = <<>>
    /\ pendingMig = [p \in Procs |-> <<>>]
    /\ pendingUsers = [p \in Procs |-> <<>>]
    /\ openConns = {}
    /\ migrationsDir = {ReadmeEntry}
    /\ drivers \in SUBSET Range(DriverOrder)
    /\ faults = 0
    /\ faultBudget = MaxFaultsConc
    /\ InitProcs
    /\ InitSingleDb
    /\ baseTables = (IF dbExists THEN BaseTableNames ELSE {})
    /\ roleCurrent = TRUE
    /\ teardown = RegisteredTeardown
    /\ g = [p \in Procs |-> "none"]
    /\ InitNoRequests

\* The threads of the application serve requests side by side.
NextReq == \E p \in Procs : RequestStep(p) \/ ConnectStep(p)

SpecReq == InitReq /\ [][NextReq]_vars

(* ------------------------------------------------------------------ C20 *)
\* The connections open that were opened in the current request of p.
OpenInScope(p) == {c \in openConns : c.owner = p /\ c.run = run[p]}

\* Once get_db() has returned a connection in the request of p, it opens
\* none and returns that one.
StoredConnectionReused(p) ==
    LET L == log[p]
        first == { k \in 1..Len(L) : L[k].ev = "get_db_return" /\ L[k].ok }
    IN
    \A k \in first : \A m \in (k + 1)..Len(L) :
        /\ L[m].ev \notin ConnectionEvents
        /\ L[m].ev = "get_db_return" => (L[m].ok /\ L[m].idx = 1 /\ conn[p] = g[p])

\* At the end of the request close_db is called, with a stored connection
\* it closes it (unless close() raises), and the teardown never raises.
ClosedAtScopeEnd(p) ==
    LET L == log[p] IN
    (pc[p] = "idle" /\ run[p] >= 1) =>
        /\ L[Len(L)].ev = "close_db"
        /\ L[Len(L) - 1].ev = "request_end"
        /\ (\E k \in 1..Len(L) : L[k].ev = "get_db_return" /\ L[k].ok) =>
              /\ L[Len(L)].idx = 1
              /\ L[Len(L)].ok =>
                    ~\E c \in openConns : c.owner = p /\ c.run = run[p] /\ c.kind = "db"

\* C20 (as claimed): in one request the first get_db() opens a connection
\* and every later call returns that one, opening none, so that at most
\* one connection is open in the request once one is obtained; a call that
\* obtains no connection stores nothing and returns None; at the end of
\* the request, ended by a response or by an exception, close_db closes
\* the stored connection, and close_db never raises.
C20_PerRequestConnection ==
    \A p \in Procs :
        /\ StoredConnectionReused(p)
        /\ g[p] # "none" => Cardinality(OpenInScope(p)) <= 1
        /\ \A k \in 1..Len(log[p]) :
              /\ (log[p][k].ev = "config" /\ ~log[p][k].ok) =>
                    /\ k < Len(log[p])
                    /\ log[p][k + 1].ev = "get_db_return" /\ ~log[p][k + 1].ok
              /\ (log[p][k].ev = "get_db_return" /\ ~log[p][k].ok) =>
                    (g[p] = "none" \/ \E m \in (k + 1)..Len(log[p]) :
                                           log[p][m].ev = "get_db_return" /\ log[p][m].ok)
        /\ ClosedAtScopeEnd(p)

\* What the code does keep: the reuse of the stored connection, the close
\* at the end of every request, and one stored connection per request.
C20_StoredConnectionScoped ==
    \A p \in Procs :
        /\ StoredConnectionReused(p)
        /\ ClosedAtScopeEnd(p)
        /\ Cardinality({c \in OpenInScope(p) : c.kind = "db"}) <= 1
        /\ (g[p] # "none" /\ pc[p] \in {"req", "teardown"}) =>
              \E c \in OpenInScope(p) : c.kind = "db" /\ c.driver = g[p]

\* The temporary connection of connect_mysql is left open next to the
\* connection get_db has stored.
C20_TmpLeakReached ==
    \E p \in Procs :
        /\ g[p] # "none"
        /\ \E c \in OpenInScope(p) : c.kind = "tmp"

(* ================================================================== *)
(* apply_migration on one file of any text                            *)
(* ================================================================== *)
\* The characters of a migration file: a letter, the terminator, a blank,
\* a line end, the quote of a string literal and the "#" that starts a
\* comment.
SplitAlphabet == {"a", ";", " ", "\n", "'", "#"}
MaxTextLen == 4
MaxFaultsSplit == 1
SplitTexts == UNION { [1..n -> SplitAlphabet] : n \in 0..MaxTextLen }
SplitName == <<1>>

\* main() has connected with the first driver and ensured the tracking
\* table; the migrations directory holds one migration file, of any text,
\* whose name is recorded already or is not.
InitSplit ==
    /\ dbExists = TRUE
    /\ trackingTable = TRUE
    /\ schema_migrations \in {<<>>, <<SplitName>>}
    /\ usersSchema = "missing"
    /\ users = <<>>
    /\ pendingMig = [p \in Procs |-> <<>>]
    /\ pendingUsers = [p \in Procs |-> <<>>]
    /\ openConns = {[owner |-> "p1", run |-> 1, kind |-> "db", driver |-> DriverOrder[1]]}
    /\ migrationsDir \in
         { {ReadmeEntry, [name |-> SplitName, ext |-> "sql", text |-> t]} : t \in SplitTexts }
    /\ drivers = Range(DriverOrder)
    /\ faults = 0
    /\ faultBudget = MaxFaultsSplit
    /\ pc = [p \in Procs |-> IF p = "p1" THEN "load" ELSE "idle"]
    /\ run = [p \in Procs |-> IF p = "p1" THEN 1 ELSE 0]
    /\ drv = [p \in Procs |-> 1]
    /\ conn = [p \in Procs |-> IF p = "p1" THEN DriverOrder[1] ELSE "none"]
    /\ paths = [p \in Procs |-> <<>>]
    /\ i = [p \in Procs |-> 1]
    /\ stmts = [p \in Procs |-> <<>>]
    /\ j = [p \in Procs |-> 1]
    /\ adminHash = [p \in Procs |-> GeneratePasswordHash("", 0)]
    /\ log = [p \in Procs |->
                IF p = "p1"
                THEN <<Ev("connect", NoName, 1, TRUE), Ev("ensure_table", NoName, 0, TRUE)>>
                ELSE <<>>]
    /\ startDb = [p \in Procs |-> [table |-> TRUE, migrations |-> schema_migrations,
                                   users |-> <<>>]]
    /\ prevOutcome = [p \in Procs |-> "none"]
    /\ execRuns = {}
    /\ InitSingleDb
    /\ InitNoWeb

\* The loop of main() over the directory.
NextSplit ==
    \/ LoadStep("p1")
    \/ Skipping("p1")
    \/ Applying("p1")
    \/ ExecStatement("p1")
    \/ RecordMigration("p1")
    \/ CommitMigration("p1")

SpecSplit == InitSplit /\ [][NextSplit]_vars

(* ------------------------------------------------------------------ C21 *)
\* Where a text is cut: before its first character, at every ';', and
\* after its last character.
Cuts(text) == {0, Len(text) + 1} \cup {k \in 1..Len(text) : text[k] = ";"}
NthCut(text, n) ==
    CHOOSE c \in Cuts(text) : Cardinality({d \in Cuts(text) : d < c}) = n - 1

\* A piece without the whitespace around it.
Trimmed(s) ==
    LET keep == {k \in 1..Len(s) : s[k] \notin {" ", "\n"}} IN
    IF keep = {} THEN <<>>
    ELSE SubSeq(s, CHOOSE k \in keep : \A m \in keep : k <= m,
                   CHOOSE k \in keep : \A m \in keep : k >= m)

\* The text split at every ';', each piece trimmed, the empty pieces
\* removed, in the order of the text.
TextualSplit(text) ==
    LET n == Cardinality(Cuts(text)) - 1
        pieces == [k \in 1..n |->
                     Trimmed(SubSeq(text, NthCut(text, k) + 1, NthCut(text, k + 1) - 1))]
    IN SelectSeq(pieces, LAMBDA s : s # <<>>)

\* apply_migration has ended for the unit: normally, or by raising.
ApplyEnded(p, name) ==
    \/ EventsOf(p, "commit", name) # <<>>
    \/ pc[p] = "raised"

\* C21: the statements apply_migration executes for a file are the pieces
\* of the file's text between its ';' characters, a ';' inside a comment or
\* a string literal included, each trimmed of the whitespace around it, the
\* empty ones left out, in the order of the text, each once; the INSERT
\* into schema_migrations follows the last of them, and when
\* apply_migration has ended the unit is recorded, also when the text
\* yields no statement at all.
C21_SplittingTextual ==
    \A d \in {e \in migrationsDir : e.ext = "sql"} :
        LET expected == TextualSplit(d.text)
            execs == EventsOf(P1, "exec", d.name)
        IN
        /\ Len(execs) <= Len(expected)
        /\ \A m \in 1..Len(execs) : execs[m].idx = m /\ execs[m].stmt = expected[m]
        /\ pc[P1] \in {"exec", "commit", "raised"} => stmts[P1] = expected
        /\ EventsOf(P1, "insert", d.name) # <<>> => Len(execs) = Len(expected)
        /\ ApplyEnded(P1, d.name) =>
              /\ EventsOf(P1, "insert", d.name) # <<>>
              /\ d.name \in Range(schema_migrations)

\* Witness of C21: the file's text is  ';\n'  with a ';' inside the string
\* literal; the two pieces on either side of it were executed, the second
\* one trimmed, and the unit is recorded.
C21_Witness ==
    /\ \E d \in migrationsDir : d.ext = "sql" /\ d.text = <<"'", ";", "\n", "'">>
    /\ LET execs == EventsOf(P1, "exec", SplitName) IN
       /\ Len(execs) = 2
       /\ execs[1].stmt = <<"'">> /\ execs[2].stmt = <<"'">>
    /\ EventsOf(P1, "commit", SplitName) # <<>>
    /\ SplitName \in Range(schema_migrations)

\* The file's text is  #;\na : the ';' inside the comment split it, and the
\* comment's start was executed as a statement of its own.
C21_WitnessComment ==
    /\ \E d \in migrationsDir : d.ext = "sql" /\ d.text = <<"#", ";", "\n", "a">>
    /\ LET execs == EventsOf(P1, "exec", SplitName) IN
       /\ Len(execs) = 2
       /\ execs[1].stmt = <<"#">> /\ execs[2].stmt = <<"a">>
    /\ EventsOf(P1, "commit", SplitName) # <<>>

\* The file's text yields no statement: nothing was executed, and the unit
\* was recorded.
C21_WitnessNoStatement ==
    /\ \E d \in migrationsDir : d.ext = "sql" /\ d.text = <<" ", ";", "\n", ";">>
    /\ EventsOf(P1, "exec", SplitName) = <<>>
    /\ EventsOf(P1, "print_applying", SplitName) # <<>>
    /\ EventsOf(P1, "commit", SplitName) # <<>>
    /\ SplitName \in Range(schema_migrations)

\* A failed lookup let apply_migration run on a recorded unit: its INSERT
\* raised, and the unit is recorded as before.
C21_WitnessRaised ==
    /\ pc[P1] = "raised"
    /\ EventsOf(P1, "exec", SplitName) # <<>>
    /\ schema_migrations = <<SplitName>>

(* ================================================================== *)
(* the routes that read and write users.role (main.py)                *)
(* ================================================================== *)
\* What a client can send.  Absent stands for a key the JSON payload does
\* not have, JsonNull for the JSON value null.
Absent == "<absent>"
JsonNull == "<null>"
UsernameInputs == {"admin", "bob", "al"}
PasswordInputs == {"admin@123", "secret1", "pw"}
RegisterPasswords == {"secret1", "pw"}
RoleInputs == {Absent, JsonNull, "admin", "Admin", "user", "customer"}
BlockedInputs == {Absent, "false"}

\* str(v).lower() of a payload value.
Str(v) == IF v = JsonNull THEN "None" ELSE v
Lower(s) == IF s = "Admin" THEN "admin" ELSE IF s = "None" THEN "none" ELSE s

\* payload.get(key): None for a missing key and for null.
IsNone(v) == v \in {Absent, JsonNull}

\* A row of users with the columns that decide what the routes do; the
\* row's id is its place in the table.
UserRow(username, hash, role) ==
    [username |-> username, password_hash |-> hash, role |-> role, blocked |-> FALSE]

\* check_password_hash(hash, password)
CheckPasswordHash(hash, password) == hash.pw = password

\* get_db() gives a connection, gives None, or raises (mysql_config).
GetDbOutcomes == {"conn", "none", "raise"}

\* A handler's result: the status of its response, the table and the
\* client's session as it leaves them, and the statement it has written to
\* users with ("none", "INSERT" or "UPDATE").
Outcome(status, rows, sess, wrote) ==
    [status |-> status, users |-> rows, session |-> sess, wrote |-> wrote]
Refused(p, status) == Outcome(status, users, session[p], "none")

\* UPDATE users SET ... WHERE id=%s: the row with that id becomes row.
UpdateUser(id, row) ==
    [k \in 1..Len(users) |-> IF k = id THEN row ELSE users[k]]

\* A plausible slip: the role check asks for a logged-in user only.
SessionIsAdminLoggedIn(p) == session[p].user_id # 0

\* session.get("role") == "admin"
SessionIsAdmin(p) == session[p].role = "admin"

\* "if len(username) < 3 or len(password) < 6"
ShortCredentials(username, password) == Len(username) < 3 \/ Len(password) < 6

\* api_login, from get_db() on
LoginOutcome(p, username, password, db) ==
    IF db = "raise" THEN Refused(p, 500)
    ELSE IF db = "none" THEN Refused(p, 503)
    ELSE LET ids == {k \in 1..Len(users) : users[k].username = username} IN
         IF ids = {} THEN Refused(p, 401)
         ELSE LET id == CHOOSE k \in ids : TRUE
                  row == users[id]
              IN IF ~CheckPasswordHash(row.password_hash, password) THEN Refused(p, 401)
                 ELSE IF row.blocked THEN Refused(p, 403)
                 ELSE Outcome(200, users,
                              [user_id |-> id,
                               role |-> IF row.role = "" THEN "customer" ELSE row.role],
                              "none")

\* api_logout: session.clear()
LogoutOutcome(p) == Outcome(200, users, NoSession, "none")

\* The role api_register writes.
RegisteredRole == "customer"

\* api_register, from get_db() on; err is an INSERT that fails for another
\* reason than the UNIQUE constraint on username.
RegisterOutcome(p, username, password, db, err) ==
    IF db = "raise" THEN Refused(p, 500)
    ELSE IF db = "none" THEN Refused(p, 503)
    ELSE IF err \/ \E k \in 1..Len(users) : users[k].username = username
    THEN Refused(p, 400)
    ELSE Outcome(200,
                 Append(users, UserRow(username, GeneratePasswordHash(password, <<"web", 0>>),
                                       RegisteredRole)),
                 session[p], "INSERT")

\* update_profile, from get_db() on.  Its UPDATE sets display_name and
\* avatar_url in either branch.
UpdateProfileOutcome(p, role, db) ==
    IF db = "raise" THEN Refused(p, 500)
    ELSE IF db = "none" THEN Refused(p, 503)
    ELSE IF ~IsNone(role)
    THEN IF ~SessionIsAdmin(p) THEN Refused(p, 403)
         ELSE IF Lower(Str(role)) \notin {"user", "admin"} THEN Refused(p, 400)
         ELSE Outcome(200,
                      UpdateUser(session[p].user_id,
                                 [users[session[p].user_id] EXCEPT
                                     !.role = Lower(Str(role))]),
                      session[p], "UPDATE")
    ELSE Outcome(200, users, session[p], "UPDATE")

\* admin_update_user: what it answers to a payload it does not accept, 0
\* for a payload it accepts.  Of the columns it can set, role and blocked
\* are followed.
AdminPayloadRefused(role, blocked) ==
    IF role # Absent /\ Lower(Str(role)) \notin {"customer", "user", "admin"} THEN 400
    ELSE IF role = Absent /\ blocked = Absent THEN 400
    ELSE 0

\* admin_update_user, from get_db() on
AdminUpdateOutcome(p, user_id, role, blocked, db) ==
    IF db = "raise" THEN Refused(p, 500)
    ELSE IF db = "none" THEN Refused(p, 503)
    ELSE Outcome(200,
                 UpdateUser(user_id,
                            [users[user_id] EXCEPT
                                !.role = IF role = Absent THEN @ ELSE Lower(Str(role)),
                                !.blocked = IF blocked = Absent THEN @ ELSE blocked = "true"]),
                 session[p], "UPDATE")

\* Whether the payload of update_profile has no role key, has null there, or
\* has a value.
RoleField(role) ==
    IF role = Absent THEN "absent" ELSE IF role = JsonNull THEN "null" ELSE "given"

\* The client p sends a request to a route, and the handler answers it.
Handled(p, route, role, out) ==
    /\ response' = [client |-> p, route |-> route, status |-> out.status,
                    role |-> RoleField(role), wrote |-> out.wrote]
    /\ users' = out.users
    /\ session' = [session EXCEPT ![p] = out.session]
    /\ UNCHANGED <<dbExists, trackingTable, schema_migrations, usersSchema, pendingMig,
                   pendingUsers, openConns, migrationsDir, drivers, faults, faultBudget,
                   mysqlDb, otherDb, baseTables, roleCurrent, teardown, g, pc, run,
                   locVars, log, histVars>>

ApiLogin(p) ==
    \E username \in UsernameInputs : \E password \in PasswordInputs :
        IF ShortCredentials(username, password)
        THEN Handled(p, "api_login", Absent, Refused(p, 400))
        ELSE \E db \in GetDbOutcomes :
                Handled(p, "api_login", Absent, LoginOutcome(p, username, password, db))

ApiLogout(p) == Handled(p, "api_logout", Absent, LogoutOutcome(p))

ApiRegister(p) ==
    \E username \in UsernameInputs : \E password \in RegisterPasswords :
        IF ShortCredentials(username, password)
        THEN Handled(p, "api_register", Absent, Refused(p, 400))
        ELSE \E db \in GetDbOutcomes : \E err \in BOOLEAN :
                Handled(p, "api_register", Absent,
                        RegisterOutcome(p, username, password, db, err))

\* update_profile: without a logged-in user it answers before it reads the
\* payload.
UpdateProfile(p) ==
    \E role \in RoleInputs :
        IF session[p].user_id = 0
        THEN Handled(p, "update_profile", role, Refused(p, 401))
        ELSE \E db \in GetDbOutcomes :
                Handled(p, "update_profile", role, UpdateProfileOutcome(p, role, db))

\* admin_update_user: without the admin role in the session it answers
\* before it reads the payload.
AdminUpdateUser(p) ==
    IF ~SessionIsAdmin(p)
    THEN Handled(p, "admin_update_user", Absent, Refused(p, 403))
    ELSE \E user_id \in 1..Len(users) : \E role \in RoleInputs :
         \E blocked \in BlockedInputs :
            IF AdminPayloadRefused(role, blocked) # 0
            THEN Handled(p, "admin_update_user", Absent,
                         Refused(p, AdminPayloadRefused(role, blocked)))
            ELSE \E db \in GetDbOutcomes :
                    Handled(p, "admin_update_user", Absent,
                            AdminUpdateOutcome(p, user_id, role, blocked, db))

\* The application runs on the schema ensure_schema and the migrations have
\* left, with the admin account that migrate.py has seeded; two clients.
InitRoles ==
    /\ dbExists = TRUE
    /\ trackingTable = TRUE
    /\ schema_migrations = <<>>
    /\ usersSchema = "role"
    /\ users = <<UserRow(AdminUsername, GeneratePasswordHash("admin@123", <<"p1", 0>>),
                         "admin")>>
    /\ pendingMig = [p \in Procs |-> <<>>]
    /\ pendingUsers = [p \in Procs |-> <<>>]
    /\ openConns = {}
    /\ migrationsDir = {ReadmeEntry}
    /\ drivers = Range(DriverOrder)
    /\ faults = 0
    /\ faultBudget = 0
    /\ InitProcs
    /\ InitSingleDb
    /\ baseTables = BaseTableNames
    /\ roleCurrent = TRUE
    /\ teardown = RegisteredTeardown
    /\ g = [p \in Procs |-> "none"]
    /\ InitNoRequests

NextRoles ==
    \E p \in Procs :
        \/ ApiLogin(p)
        \/ ApiLogout(p)
        \/ ApiRegister(p)
        \/ UpdateProfile(p)
        \/ AdminUpdateUser(p)

SpecRoles == InitRoles /\ [][NextRoles]_vars

(* ------------------------------------------------------------------ C22 *)
\* The step has handled a request of a client whose session, as the request
\* came in, did not have the role "admin".
NonAdminRequest ==
    /\ response'.client \in Procs
    /\ session[response'.client].role # "admin"

\* Every row there was is still there, with the role it had.
RolesKept ==
    /\ Len(users') >= Len(users)
    /\ \A k \in 1..Len(users) : users'[k].role = users[k].role

\* The step has written nothing to users.
WroteNothing == users' = users /\ response'.wrote = "none"

\* Rows come into users by a successful registration only, one at a time,
\* with the role "customer", and a successful registration adds a row.
RegistersCustomers ==
    /\ Len(users') # Len(users) =>
          /\ response'.route = "api_register" /\ response'.status = 200
          /\ Len(users') = Len(users) + 1
          /\ SubSeq(users', 1, Len(users)) = users
          /\ users'[Len(users')].role = "customer"
    /\ (response'.route = "api_register" /\ response'.status = 200) =>
          Len(users') = Len(users) + 1

\* admin_update_user answers a request without the admin role in its
\* session with 403 and writes nothing.
AdminRouteRefuses ==
    (NonAdminRequest /\ response'.route = "admin_update_user") =>
        WroteNothing /\ response'.status = 403

\* C22, as the code has it: a request whose session role is not "admin"
\* never changes the role of a users row.  update_profile with a role value
\* other than null in such a request writes nothing and answers 401 when no
\* user is logged in, and otherwise 403, or 503 or an error when get_db()
\* gives no connection or raises; admin_update_user answers 403 and writes
\* nothing; a registration that creates an account creates it with the
\* role "customer".
C22_RoleChangesAdminOnly ==
    [][ /\ NonAdminRequest => RolesKept
        /\ (NonAdminRequest /\ response'.route = "update_profile"
                            /\ response'.role = "given") =>
              /\ WroteNothing
              /\ IF session[response'.client].user_id = 0
                 THEN response'.status = 401
                 ELSE response'.status \in {403, 503, 500}
        /\ AdminRouteRefuses
        /\ RegistersCustomers ]_vars

\* Witness of C22: an account was registered and logged in with the role
\* "customer", an admin then gave it the role "admin", and its request to
\* update_profile with a role, still under the session of before, was
\* answered 403 with nothing written.
C22_Witness ==
    /\ response.client \in Procs
    /\ response.route = "update_profile" /\ response.role = "given"
    /\ response.status = 403 /\ response.wrote = "none"
    /\ LET sess == session[response.client] IN
       /\ sess.user_id # 0 /\ sess.role = "customer"
       /\ users[sess.user_id].role = "admin"

\* C22 as stated: update_profile with a role field in a request whose
\* session role is not "admin" answers 403 and writes nothing, whoever sends
\* it and whatever the field holds.
C22_RoleFieldAlways403 ==
    [][ /\ NonAdminRequest => RolesKept
        /\ (NonAdminRequest /\ response'.route = "update_profile"
                            /\ response'.role # "absent") =>
              WroteNothing /\ response'.status = 403
        /\ AdminRouteRefuses
        /\ RegistersCustomers ]_vars

\* A logged-in customer's update_profile with "role": null was answered 200
\* and has written display_name and avatar_url.
C22_NullRoleWrites ==
    /\ response.client \in Procs
    /\ response.route = "update_profile" /\ response.role = "null"
    /\ response.status = 200 /\ response.wrote = "UPDATE"
    /\ session[response.client].role = "customer"

\* A customer's request to admin_update_user was answered 403.
C22_AdminRouteRefused ==
    /\ response.client \in Procs
    /\ response.route = "admin_update_user" /\ response.status = 403
    /\ session[response.client].role = "customer"

\* An admin whose own row no longer has the role "admin" has changed a role
\* under the session of before.
C22_StaleAdminSession ==
    /\ response.client \in Procs
    /\ response.route = "admin_update_user" /\ response.status = 200
    /\ LET sess == session[response.client] IN
       sess.role = "admin" /\ users[sess.user_id].role # "admin"
====
